---- MODULE Spec2Model ----
(***************************************************************************)
(* Model of the SKY130 technology plugin (hammer/technology/sky130):       *)
(*   - gen_config: the corner-filename parsers and the descriptor builder; *)
(*   - post_install_script and its patch jobs (setup_cdl, setup_verilog,   *)
(*     setup_techlef, setup_io_lefs).                                      *)
(* Python strings are TLA+ strings handled character by character with     *)
(* Len, SubSeq and \o; Python lists are TLA+ sequences.                    *)
(***************************************************************************)
EXTENDS Integers, Sequences, FiniteSets, TLC

(***************************************************************************)
(* Bounds of the model.                                                    *)
(***************************************************************************)
\* total number of corner files in the three vendor lib directories
MaxFiles == 2
\* number of lines of a varied vendor source file, after its fixed lines
MaxLines == 5
\* number of pin blocks of a varied IO LEF
MaxBlocks == 4
\* number of actions that the host runs on one tool session
MaxAppends == 2

(***************************************************************************)
(* Python string primitives.                                               *)
(***************************************************************************)
\* Python's None (an absent regex group, an unset Library field)
None == "<None>"

\* s[i-1:] of Python, 1-based here
From(s, i) == SubSeq(s, i, Len(s))

\* s.startswith(p)
StartsWith(s, p) == Len(p) <= Len(s) /\ SubSeq(s, 1, Len(p)) = p

\* s.find(p) + 1 : the first position at which p occurs in s, 0 when absent
Find(s, p) ==
    LET hits == {i \in 1..(Len(s) - Len(p) + 1) : SubSeq(s, i, i + Len(p) - 1) = p}
    IN  IF hits = {} THEN 0 ELSE CHOOSE i \in hits : \A j \in hits : i <= j

\* p in s
Contains(s, p) == Find(s, p) # 0

\* s.replace(old, new): every non-overlapping occurrence, left to right
RECURSIVE Replace(_, _, _)
Replace(s, old, new) ==
    LET i == Find(s, old)
    IN  IF i = 0 THEN s
        ELSE SubSeq(s, 1, i - 1) \o new \o Replace(From(s, i + Len(old)), old, new)

\* s.split(sep): the list of the pieces between the occurrences of sep
RECURSIVE Split(_, _)
Split(s, sep) ==
    LET i == Find(s, sep)
    IN  IF i = 0 THEN <<s>>
        ELSE <<SubSeq(s, 1, i - 1)>> \o Split(From(s, i + Len(sep)), sep)

\* sep.join(parts)
RECURSIVE StrJoin(_, _)
StrJoin(sep, parts) ==
    IF Len(parts) = 0 THEN ""
    ELSE IF Len(parts) = 1 THEN parts[1]
    ELSE parts[1] \o sep \o StrJoin(sep, Tail(parts))

\* os.path.join of relative components
PathJoin(parts) == StrJoin("/", parts)

\* x in list
InList(x, list) == \E i \in 1..Len(list) : list[i] = x

\* the characters of file names in code-point order; Ord(c) is the rank of the
\* one-character string c, which orders characters as their code points do
FileNameChars == "$-./0123456789ABCDEFGHIJKLMNOPQRSTUVWXYZ_abcdefghijklmnopqrstuvwxyz"

Ord(c) == Find(FileNameChars, c)

\* a < b for Python strings: lexicographic by code point
RECURSIVE StrLess(_, _)
StrLess(a, b) ==
    IF Len(b) = 0 THEN FALSE
    ELSE IF Len(a) = 0 THEN TRUE
    ELSE IF SubSeq(a, 1, 1) = SubSeq(b, 1, 1) THEN StrLess(From(a, 2), From(b, 2))
    ELSE Ord(SubSeq(a, 1, 1)) < Ord(SubSeq(b, 1, 1))

\* list.sort() on a list of strings
RECURSIVE SortInsert(_, _)
SortInsert(x, sorted) ==
    IF Len(sorted) = 0 THEN <<x>>
    ELSE IF StrLess(x, sorted[1]) THEN <<x>> \o sorted
    ELSE <<sorted[1]>> \o SortInsert(x, Tail(sorted))

\* Sort that leaves the list in the order of the directory listing
Unsorted(list) == list

\* list.sort()
RECURSIVE Sort(_)
Sort(list) ==
    IF Len(list) = 0 THEN <<>>
    ELSE SortInsert(list[1], Sort(Tail(list)))

(***************************************************************************)
(* re.split('_(ff)|_(ss)|_(tt)', s): the pieces between the matches, each  *)
(* match contributing its three groups, None for the alternatives that did *)
(* not take part in the match.                                             *)
(***************************************************************************)
RECURSIVE FindCorner(_, _)
FindCorner(s, i) ==
    IF i + 2 > Len(s) THEN 0
    ELSE IF SubSeq(s, i, i + 2) \in {"_ff", "_ss", "_tt"} THEN i
    ELSE FindCorner(s, i + 1)

Group(m, alt) == IF m = "_" \o alt THEN alt ELSE None

RECURSIVE ReSplitCorner(_)
ReSplitCorner(s) ==
    LET i == FindCorner(s, 1)
        m == SubSeq(s, i, i + 2)
    IN  IF i = 0 THEN <<s>>
        ELSE <<SubSeq(s, 1, i - 1), Group(m, "ff"), Group(m, "ss"), Group(m, "tt")>>
             \o ReSplitCorner(From(s, i + 3))

(***************************************************************************)
(* Exceptions and the outcome of handling one corner file.                 *)
(***************************************************************************)
NoError == [type |-> "none", msg |-> ""]

Raise(type, msg) == [type |-> type, msg |-> msg]

Skipped == [kind |-> "skip"]

Raised(type, msg) == [kind |-> "raise", exc |-> Raise(type, msg)]

Emitted(lib) == [kind |-> "lib", lib |-> lib]

\* hammer.tech.Library with the fields this plugin sets; None for the others
Library(nldm, verilog, lef, spice, gds, corner, supplies, provides) ==
    [nldm_liberty_file |-> nldm, verilog_sim |-> verilog, lef_file |-> lef,
     spice_file |-> spice, gds_file |-> gds, corner |-> corner,
     supplies |-> supplies, provides |-> provides]

Corner(speed, temp) == [nmos |-> speed, pmos |-> speed, temperature |-> temp]

Supplies(vdd) == [VDD |-> vdd, GND |-> "0 V"]

Provide(lib_type, vt) == [lib_type |-> lib_type, vt |-> vt]

NoCorner == [nmos |-> None, pmos |-> None, temperature |-> None]

NoSupplies == [VDD |-> None, GND |-> None]

(***************************************************************************)
(* The three steps every dialect shares.                                   *)
(***************************************************************************)
\* the chain of ifs that maps the process code to the speed class; a code
\* other than ff, tt, ss falls through all three and is kept as it is
SpeedOf(code) ==
    LET s1 == IF code = "ff" THEN "fast" ELSE code
        s2 == IF s1 = "tt" THEN "typical" ELSE s1
    IN  IF s2 = "ss" THEN "slow" ELSE s2

\* the temperature without the replacement of n by the minus sign
TempOfUnsigned(token) == Split(token, "C")[1] \o " C"

\* temp.replace('n', '-') then temp.split('C')[0] + ' C'
TempOf(token) == Split(Replace(token, "n", "-"), "C")[1] \o " C"

\* the voltage joined without the decimal point
IoVddOfNoPoint(token) == StrJoin("", Split(token, "v")) \o " V"

\* IO dialect: ('.').join(token.split('v')) + ' V'
IoVddOf(token) == StrJoin(".", Split(token, "v")) \o " V"

(***************************************************************************)
(* gen_config, IO cells: one file of libs.ref/sky130_fd_io/lib.            *)
(***************************************************************************)
IoSkywaterLibs == PathJoin(<<"$SKY130A", "libs.ref", "sky130_fd_io">>)

\* SameCorner without the comparison: every cross corner is kept
SameCornerAny(process) == TRUE

\* the cross-corner test: process[0:3] against process[4:], pairwise, as far
\* as the shorter of the two goes
SameCorner(process) ==
    \A i \in 1..3 : (i + 4 <= Len(process)) => process[i] = process[i + 4]

\* next(c for c in process if c is not None); 0 when there is none
RECURSIVE FirstNotNone(_, _)
FirstNotNone(process, i) ==
    IF i > Len(process) THEN 0
    ELSE IF process[i] # None THEN i
    ELSE FirstNotNone(process, i + 1)

\* LowVoltage with the test inverted
LowVoltageInverted(token) == ~StartsWith(token, "1")

\* the secondary-voltage filter of the IO dialect on one voltage token
LowVoltage(token) == StartsWith(token, "1")

IoLibEntry(cornerfilename, cell_name, speed, temp, vdd) ==
    LET file_lib == IF Contains(cell_name, "sky130_ef_io") THEN "sky130_ef_io"
                    ELSE "sky130_fd_io"
        gds_file == IF cell_name = "sky130_ef_io__gpiov2_pad_wrapped"
                    THEN cell_name \o ".gds" ELSE file_lib \o ".gds"
        lef_file == IF Contains(cell_name, "sky130_ef_io")
                    THEN "cache/sky130_ef_io.lef"
                    ELSE PathJoin(<<IoSkywaterLibs, "lef", file_lib \o ".lef">>)
        spice_file == IF Contains(cell_name, "sky130_ef_io")
                      THEN PathJoin(<<IoSkywaterLibs, "cdl", file_lib \o ".cdl">>)
                      ELSE PathJoin(<<IoSkywaterLibs, "spice", file_lib \o ".spice">>)
    IN  Library(PathJoin(<<IoSkywaterLibs, "lib", cornerfilename>>),
                PathJoin(<<IoSkywaterLibs, "verilog", file_lib \o ".v">>),
                lef_file, spice_file,
                PathJoin(<<IoSkywaterLibs, "gds", gds_file>>),
                Corner(speed, temp), Supplies(vdd),
                <<Provide(cell_name, "RVT")>>)

\* the loop body from the cross-corner filter on; first is the place in
\* process of its first entry that is not None, 0 when there is none
IoCorner(cornerfilename, cell_name, process, temp_volt, first) ==
    IF Len(process) > 3 /\ ~SameCorner(process) THEN Skipped
    ELSE IF first = 0 THEN Raised("StopIteration", "")
    ELSE IF Len(temp_volt) < 3
         THEN Raised("IndexError", "list index out of range")
    ELSE IF LowVoltage(temp_volt[3]) THEN Skipped
    ELSE IF Len(temp_volt) = 4 /\ LowVoltage(temp_volt[4]) THEN Skipped
    ELSE Emitted(IoLibEntry(cornerfilename, cell_name,
                            SpeedOf(Replace(process[first], "_", "")),
                            TempOf(temp_volt[1]), IoVddOf(temp_volt[2])))

\* cell_name, process and temp_volt, taken from split_cell_corner
IoSplit(cornerfilename, split_cell_corner) ==
    IoCorner(cornerfilename, split_cell_corner[1],
             SubSeq(split_cell_corner, 2, Len(split_cell_corner) - 1),
             Tail(Split(split_cell_corner[Len(split_cell_corner)], "_")),
             FirstNotNone(SubSeq(split_cell_corner, 2, Len(split_cell_corner) - 1), 1))

ParseIoFile(cornerfilename) ==
    IF Contains(cornerfilename, "nointpwr") THEN Skipped
    ELSE IoSplit(cornerfilename, ReSplitCorner(Replace(cornerfilename, ".lib", "")))

(***************************************************************************)
(* gen_config, standard cells: one file of the selected family's lib       *)
(* directory.  lib_corner_files is the sorted listing of that directory.   *)
(***************************************************************************)
\* the two filters at the head of both stdcell loops
StdSkipped(cornerfilename) ==
    \/ ~Contains(cornerfilename, "sky130")
    \/ Contains(cornerfilename, "ccsnoise")

\* LibertyFile that keeps the file being handled
LibertyFilePlain(cornerfilename, lib_corner_files) == cornerfilename

\* the liberty file the record names: the ccsnoise version when the listing
\* has one for this corner
LibertyFile(cornerfilename, lib_corner_files) ==
    LET tmp == Replace(cornerfilename, ".lib", "")
    IN  IF InList(tmp \o "_ccsnoise.lib", lib_corner_files)
        THEN tmp \o "_ccsnoise.lib" ELSE cornerfilename

\* sky130_fd_sc_hd: vdd.split('v')[0] + '.' + vdd.split('v')[1] + ' V'
HdVddOf(token) == Split(token, "v")[1] \o "." \o Split(token, "v")[2] \o " V"

HdSkywaterLibs == PathJoin(<<"$SKY130A", "libs.ref", "sky130_fd_sc_hd">>)

\* the record of one file, from speed = cornerparts[0] on
HdLibEntry(cornerfilename, lib_corner_files, library, cornerparts) ==
    IF Len(cornerparts) < 3 \/ Len(Split(cornerparts[3], "v")) < 2
    THEN Raised("IndexError", "list index out of range")
    ELSE Emitted(Library(
             PathJoin(<<HdSkywaterLibs, "lib",
                        LibertyFile(cornerfilename, lib_corner_files)>>),
             PathJoin(<<"cache", library \o ".v">>),
             PathJoin(<<HdSkywaterLibs, "lef", library \o ".lef">>),
             PathJoin(<<"cache", library \o ".cdl">>),
             PathJoin(<<HdSkywaterLibs, "gds", library \o ".gds">>),
             Corner(SpeedOf(cornerparts[1]), TempOf(cornerparts[2])),
             Supplies(HdVddOf(cornerparts[3])),
             <<Provide("stdcell", "RVT")>>))

\* cornerparts = cornername.split('_'), cornername the second of the halves
\* that split('__') makes of the name
HdSplit(cornerfilename, lib_corner_files, library, halves) ==
    IF Len(halves) < 2 THEN Raised("IndexError", "list index out of range")
    ELSE HdLibEntry(cornerfilename, lib_corner_files, library, Split(halves[2], "_"))

ParseHdFile(cornerfilename, lib_corner_files) ==
    IF StdSkipped(cornerfilename) THEN Skipped
    ELSE HdSplit(cornerfilename, lib_corner_files, "sky130_fd_sc_hd",
                 Split(Replace(cornerfilename, ".lib", ""), "__"))

\* sky130_scl: the corner is hard-coded from the process code
SclTempOf(code) ==
    IF code = "ff" THEN "-40 C" ELSE IF code = "tt" THEN "25 C"
    ELSE IF code = "ss" THEN "100 C" ELSE ""

SclVddOf(code) ==
    IF code = "ff" THEN "1.95 V" ELSE IF code = "tt" THEN "1.80 V"
    ELSE IF code = "ss" THEN "1.60 V" ELSE ""

\* the record of one file, from speed = cornerparts[0] on
SclLibEntry(cornerfilename, lib_corner_files, SKY130_CDS, SKY130_CDS_LIB, library, code) ==
    Emitted(Library(
        PathJoin(<<SKY130_CDS_LIB, "lib",
                   LibertyFile(cornerfilename, lib_corner_files)>>),
        PathJoin(<<"cache", library \o ".v">>),
        PathJoin(<<SKY130_CDS_LIB, "lef", library \o "_9T.lef">>),
        PathJoin(<<"cache", library \o ".cdl">>),
        PathJoin(<<SKY130_CDS, "gds", library \o "_9T.gds">>),
        Corner(SpeedOf(code), SclTempOf(code)),
        Supplies(SclVddOf(code)),
        <<Provide("stdcell", "RVT")>>))

ParseSclFile(cornerfilename, lib_corner_files, SKY130_CDS, SKY130_CDS_LIB) ==
    IF StdSkipped(cornerfilename) THEN Skipped
    ELSE SclLibEntry(cornerfilename, lib_corner_files, SKY130_CDS, SKY130_CDS_LIB,
                     "sky130_scl",
                     Split(Replace(Replace(cornerfilename, ".lib", ""), "sky130_", ""),
                           "_")[1])

(***************************************************************************)
(* The loop over a sorted listing: records are appended in order, the      *)
(* first file that raises ends the loop (and gen_config) with its error.   *)
(***************************************************************************)
\* the body of the loop of the dialect on files[i]
ParseFile(dialect, files, i, SKY130_CDS, SKY130_CDS_LIB) ==
    CASE dialect = "io" -> ParseIoFile(files[i])
      [] dialect = "hd" -> ParseHdFile(files[i], files)
      [] dialect = "scl" -> ParseSclFile(files[i], files, SKY130_CDS, SKY130_CDS_LIB)

RECURSIVE CornerLoop(_, _, _, _, _, _)
RECURSIVE CornerStep(_, _, _, _, _, _, _)
\* the loop after files[i] has been handled with outcome r
CornerStep(dialect, files, i, libs, SKY130_CDS, SKY130_CDS_LIB, r) ==
    IF r.kind = "raise" THEN [exc |-> r.exc, libs |-> libs]
    ELSE CornerLoop(dialect, files, i + 1,
                    IF r.kind = "lib" THEN Append(libs, r.lib) ELSE libs,
                    SKY130_CDS, SKY130_CDS_LIB)

CornerLoop(dialect, files, i, libs, SKY130_CDS, SKY130_CDS_LIB) ==
    IF i > Len(files) THEN [exc |-> NoError, libs |-> libs]
    ELSE CornerStep(dialect, files, i, libs, SKY130_CDS, SKY130_CDS_LIB,
                    ParseFile(dialect, files, i, SKY130_CDS, SKY130_CDS_LIB))

(***************************************************************************)
(* The host settings store and the file system.                            *)
(***************************************************************************)
K_slib == "technology.sky130.stdcell_library"
K_sky130A == "technology.sky130.sky130A"
K_cds == "technology.sky130.sky130_cds"
K_scl == "technology.sky130.sky130_scl"
K_cgm == "synthesis.clock_gating_mode"
K_lvs == "vlsi.core.lvs_tool"
K_sram22 == "technology.sky130.sram22_sky130_macros"

\* self.get_setting(key)
GetSetting(store, key) == store[key]

\* self.set_setting(key, value)
SetSetting(store, key, value) == [store EXCEPT ![key] = value]

\* os.path.exists(path) / Path.exists(): fs maps each existing path to its
\* content, a directory to its listing and a text file to its lines
Exists(files, path) == path \in DOMAIN files

\* os.listdir(path), in the order the file system returns the names
ListDir(files, path) == files[path]

\* LEFUtils.get_metals(tlef_path): the metal layers described by the file
GetMetals(files, tlef_path) == files[tlef_path]

\* tree with path removed
Without(tree, path) == [q \in (DOMAIN tree) \ {path} |-> tree[q]]

\* tree with path holding content
With(tree, path, content) == (path :> content) @@ tree

(***************************************************************************)
(* gen_config: the static tables of the two families.                      *)
(***************************************************************************)
SpecialCell(cell_type, name, input_ports, output_ports) ==
    [cell_type |-> cell_type, name |-> name,
     input_ports |-> input_ports, output_ports |-> output_ports]

PhysOnly ==
    <<"sky130_fd_sc_hd__tap_1", "sky130_fd_sc_hd__tap_2",
      "sky130_fd_sc_hd__tapvgnd_1", "sky130_fd_sc_hd__tapvpwrvgnd_1",
      "sky130_fd_sc_hd__fill_1", "sky130_fd_sc_hd__fill_2",
      "sky130_fd_sc_hd__fill_4", "sky130_fd_sc_hd__fill_8",
      "sky130_fd_sc_hd__diode_2">>

DontUse == <<"*sdf*", "sky130_fd_sc_hd__probe_p_*", "sky130_fd_sc_hd__probec_p_*">>

HdSpecialCells ==
    <<SpecialCell("tiehilocell", <<"sky130_fd_sc_hd__conb_1">>, <<>>, <<>>),
      SpecialCell("tiehicell", <<"sky130_fd_sc_hd__conb_1">>, <<>>, <<"HI">>),
      SpecialCell("tielocell", <<"sky130_fd_sc_hd__conb_1">>, <<>>, <<"LO">>),
      SpecialCell("endcap", <<"sky130_fd_sc_hd__tap_1">>, <<>>, <<>>),
      SpecialCell("tapcell", <<"sky130_fd_sc_hd__tapvpwrvgnd_1">>, <<>>, <<>>),
      SpecialCell("stdfiller",
                  <<"sky130_fd_sc_hd__fill_1", "sky130_fd_sc_hd__fill_2",
                    "sky130_fd_sc_hd__fill_4", "sky130_fd_sc_hd__fill_8">>,
                  <<>>, <<>>),
      SpecialCell("decap",
                  <<"sky130_fd_sc_hd__decap_3", "sky130_fd_sc_hd__decap_4",
                    "sky130_fd_sc_hd__decap_6", "sky130_fd_sc_hd__decap_8",
                    "sky130_fd_sc_hd__decap_12">>, <<>>, <<>>),
      SpecialCell("driver", <<"sky130_fd_sc_hd__buf_4">>, <<"A">>, <<"X">>),
      SpecialCell("ctsbuffer", <<"sky130_fd_sc_hd__clkbuf_1">>, <<>>, <<>>)>>

SclSpecialCells ==
    <<SpecialCell("stdfiller",
                  <<"FILL0", "FILL1", "FILL4", "FILL9", "FILL16", "FILL25",
                    "FILL36">>, <<>>, <<>>),
      SpecialCell("driver", <<"TBUF">>, <<"A">>, <<"Y">>),
      SpecialCell("ctsbuffer", <<"CLKBUFX2">>, <<>>, <<>>)>>

Stackup(name, metals) == [name |-> name, grid_unit |-> "0.001", metals |-> metals]

\* the TechJSON that gen_config assigns to self.config (the fields that
\* depend on the family and on the corner files)
TechJSON(libs, phys_only, dont_use, stackups, spcl_cells) ==
    [name |-> "Skywater 130nm Library", grid_unit |-> "0.001",
     libraries |-> libs, physical_only_cells_list |-> phys_only,
     dont_use_list |-> dont_use, stackups |-> stackups,
     special_cells |-> spcl_cells]

\* the leading entries of libs: the IO spice netlists, then the technology
\* entry of the family
IoSpiceLib ==
    Library(None, None, None,
            "$SKY130A/libs.ref/sky130_fd_io/spice/sky130_ef_io__analog.spice",
            None, NoCorner, NoSupplies, <<Provide("IO library", None)>>)

TechnologyLib(slib) ==
    IF slib = "sky130_fd_sc_hd"
    THEN Library(None, "cache/primitives.v", "$SKY130A/sky130_fd_sc_hd__nom.tlef",
                 None, None, NoCorner, NoSupplies, <<Provide("technology", None)>>)
    ELSE Library(None, "$SKY130_SCL/verilog/sky130_scl_9T.v",
                 "$SKY130_SCL/lef/sky130_scl_9T.tlef",
                 None, None, NoCorner, NoSupplies, <<Provide("technology", None)>>)

\* SelectionError with a message that does not name the value
SelectionErrorUnnamed(slib) ==
    Raise("ValueError", "Incorrect standard cell library selection")

SelectionError(slib) ==
    Raise("ValueError", "Incorrect standard cell library selection: " \o slib)

(***************************************************************************)
(* gen_config.  The result is the exception it ends with (NoError when it  *)
(* returns), the settings store it leaves, the set_setting calls it made   *)
(* and the value of self.config, a one-element sequence once assigned.     *)
(***************************************************************************)
GenResult(exc, store, writes, conf) ==
    [exc |-> exc, settings |-> store, writes |-> writes, config |-> conf]

\* the stdcell branch of family sky130_fd_sc_hd, from line 148
\* what follows the loop of a family, which ended as loop: the stackup read
\* from tlef_path and the assignment of self.config
Descriptor(store, files, conf, writes, library, loop, tlef_path, spcl_cells) ==
    IF loop.exc # NoError THEN GenResult(loop.exc, store, writes, conf)
    ELSE IF ~Exists(files, tlef_path)
    THEN GenResult(Raise("FileNotFoundError", tlef_path), store, writes, conf)
    ELSE GenResult(NoError, store, writes,
             <<TechJSON(loop.libs, PhysOnly, DontUse,
                        <<Stackup(library, GetMetals(files, tlef_path))>>,
                        spcl_cells)>>)

GenHd(store, files, conf, libs) ==
    LET SKY130A == GetSetting(store, K_sky130A)
        library == "sky130_fd_sc_hd"
        LIBRARY_PATH == PathJoin(<<SKY130A, "libs.ref", library, "lib">>)
    IN  IF ~Exists(files, LIBRARY_PATH)
        THEN GenResult(Raise("FileNotFoundError", LIBRARY_PATH), store, <<>>, conf)
        ELSE Descriptor(store, files, conf, <<>>, library,
                 CornerLoop("hd", Sort(ListDir(files, LIBRARY_PATH)), 1, libs, "", ""),
                 PathJoin(<<SKY130A, "libs.ref", library, "techlef",
                            library \o "__min.tlef">>),
                 HdSpecialCells)

\* DisableClockGating writing the default mode instead of the empty one
DisableClockGatingAuto(store) == SetSetting(store, K_cgm, "auto")

\* self.set_setting("synthesis.clock_gating_mode", "")
DisableClockGating(store) == SetSetting(store, K_cgm, "")

\* the stdcell branch of family sky130_scl, from line 252
\* the branch after its set_setting call, which left store2
GenSclLibs(store2, files, conf, libs) ==
    LET SKY130_CDS == GetSetting(store2, K_cds)
        SKY130_CDS_LIB == GetSetting(store2, K_scl)
        library == "sky130_scl"
        writes == <<<<K_cgm, GetSetting(store2, K_cgm)>>>>
        LIBRARY_PATH == PathJoin(<<SKY130_CDS_LIB, "lib">>)
    IN  IF ~Exists(files, LIBRARY_PATH)
        THEN GenResult(Raise("FileNotFoundError", LIBRARY_PATH), store2, writes, conf)
        ELSE Descriptor(store2, files, conf, writes, library,
                 CornerLoop("scl", Sort(ListDir(files, LIBRARY_PATH)), 1, libs,
                            SKY130_CDS, SKY130_CDS_LIB),
                 PathJoin(<<SKY130_CDS_LIB, "lef", library \o "_9T.tlef">>),
                 SclSpecialCells)

GenScl(store, files, conf, libs) ==
    GenSclLibs(DisableClockGating(store), files, conf, libs)

\* the stdcell branch of the selected family, after the IO loop ended as io
GenStdcells(store, files, conf, slib, io) ==
    IF io.exc # NoError THEN GenResult(io.exc, store, <<>>, conf)
    ELSE IF slib = "sky130_fd_sc_hd" THEN GenHd(store, files, conf, io.libs)
    ELSE GenScl(store, files, conf, io.libs)

gen_config(store, files, conf) ==
    LET slib == GetSetting(store, K_slib)
        SKY130A == GetSetting(store, K_sky130A)
        LIBRARY_PATH == PathJoin(<<SKY130A, "libs.ref", "sky130_fd_io", "lib">>)
    IN  IF slib \notin {"sky130_fd_sc_hd", "sky130_scl"}
        THEN GenResult(SelectionError(slib), store, <<>>, conf)
        ELSE IF ~Exists(files, LIBRARY_PATH)
        THEN GenResult(Raise("FileNotFoundError", LIBRARY_PATH), store, <<>>, conf)
        ELSE GenStdcells(store, files, conf, slib,
                 CornerLoop("io", Sort(ListDir(files, LIBRARY_PATH)), 1,
                            <<IoSpiceLib, TechnologyLib(slib)>>, "", ""))

(***************************************************************************)
(* The patch engine (post_install_script and its jobs).  A text file is    *)
(* held in fs as the sequence of its lines, each without the newline that  *)
(* ends it; the code reads and writes lines with their newline.  A TLA+    *)
(* string cannot hold the grave accent of a Verilog directive: it is       *)
(* written @ here, in the patterns and in the files alike.                 *)
(***************************************************************************)
\* self.cache_dir
cache_dir == "cache"

JobResult(exc, files, writes) == [exc |-> exc, fs |-> files, writes |-> writes]

\* reading self.library_name before post_install_script has assigned it
NoLibraryName ==
    Raise("AttributeError", "'SKY130Tech' object has no attribute 'library_name'")

\* [...][0] on an empty list
ListIndexError == Raise("IndexError", "list index out of range")

\* OpenForWrite that keeps what the file holds (mode 'a')
OpenForAppend(files, path) ==
    IF path \in DOMAIN files THEN files ELSE With(files, path, <<>>)

\* open(path, 'w'): the file is created, or truncated when it exists
OpenForWrite(files, path) == With(files, path, <<>>)

\* for line in sf / sf.readlines(): the lines with their newline
ReadLines(files, path) == [i \in 1..Len(files[path]) |-> files[path][i] \o "\n"]

\* the lines that a written text makes; the text ends with a newline
LinesOf(text) ==
    LET parts == Split(text, "\n")
    IN  IF parts[Len(parts)] = "" THEN SubSeq(parts, 1, Len(parts) - 1) ELSE parts

\* the lines that the texts of sl make when written one after the other
RECURSIVE Lines(_)
Lines(sl) ==
    IF sl = <<>> THEN <<>> ELSE LinesOf(Head(sl)) \o Lines(Tail(sl))

\* df.write(text) for each text of sl / df.writelines(sl) on the open file
Write(files, path, sl) == With(files, path, files[path] \o Lines(sl))

\* the least element of a non-empty set of indices: [...][0] of a list
\* comprehension over ascending indices
First(S) == CHOOSE i \in S : \A j \in S : i <= j

\* the elements of a set of indices in ascending order
RECURSIVE Ascending(_)
Ascending(S) ==
    IF S = {} THEN <<>> ELSE <<First(S)>> \o Ascending(S \ {First(S)})

Whitespace == {" ", "\t", "\n"}

\* s.lstrip() / s.strip()
RECURSIVE LStrip(_)
LStrip(s) ==
    IF Len(s) > 0 /\ SubSeq(s, 1, 1) \in Whitespace THEN LStrip(From(s, 2)) ELSE s

RECURSIVE RStrip(_)
RStrip(s) ==
    IF Len(s) > 0 /\ SubSeq(s, Len(s), Len(s)) \in Whitespace
    THEN RStrip(SubSeq(s, 1, Len(s) - 1))
    ELSE s

Strip(s) == RStrip(LStrip(s))

(***************************************************************************)
(* setup_cdl                                                               *)
(***************************************************************************)
CdlSource(store, lib) ==
    PathJoin(<<GetSetting(store, K_sky130A), "libs.ref", lib, "cdl", lib \o ".cdl">>)

CdlDest(lib) == PathJoin(<<cache_dir, lib \o ".cdl">>)

\* the device names expected in the LVS deck of the selected tool
Pmos(store) ==
    IF GetSetting(store, K_lvs) = "hammer.lvs.calibre" THEN "phighvt"
    ELSE IF GetSetting(store, K_lvs) = "hammer.lvs.netgen"
    THEN "sky130_fd_pr__pfet_01v8_hvt"
    ELSE "pfet_01v8_hvt"

Nmos(store) ==
    IF GetSetting(store, K_lvs) = "hammer.lvs.calibre" THEN "nshort"
    ELSE IF GetSetting(store, K_lvs) = "hammer.lvs.netgen"
    THEN "sky130_fd_pr__nfet_01v8"
    ELSE "nfet_01v8"

CdlLine(store, line) ==
    Replace(Replace(line, "pfet_01v8_hvt", Pmos(store)), "nfet_01v8", Nmos(store))

\* the loop over the lines sf of the source
CdlLines(store, sf) == [i \in 1..Len(sf) |-> CdlLine(store, sf[i])]

setup_cdl(store, files, lib) ==
    IF lib = None THEN JobResult(NoLibraryName, files, <<>>)
    ELSE
    LET source_path == CdlSource(store, lib)
        dest_path == CdlDest(lib)
    IN  IF ~Exists(files, source_path)
        THEN JobResult(Raise("FileNotFoundError", "CDL not found: " \o source_path),
                       files, <<>>)
        ELSE JobResult(NoError,
                       Write(Write(OpenForWrite(files, dest_path), dest_path,
                                   <<"*.SCALE MICRON\n">>),
                             dest_path, CdlLines(store, ReadLines(files, source_path))),
                       <<dest_path>>)

(***************************************************************************)
(* setup_verilog                                                           *)
(***************************************************************************)
VerilogSource(store, lib) ==
    PathJoin(<<GetSetting(store, K_sky130A), "libs.ref", lib, "verilog", lib \o ".v">>)

VerilogDest(lib) == PathJoin(<<cache_dir, lib \o ".v">>)

PrimitivesSource(store, lib) ==
    PathJoin(<<GetSetting(store, K_sky130A), "libs.ref", lib, "verilog",
               "primitives.v">>)

PrimitivesDest == PathJoin(<<cache_dir, "primitives.v">>)

\* the two replacements of the first pass
VerilogLine(line) ==
    Replace(Replace(line, "wire 1", "// wire 1"),
            "@endif SKY130_FD_SC_HD__LPFLOW_BLEEDER_FUNCTIONAL_V",
            "@endif // SKY130_FD_SC_HD__LPFLOW_BLEEDER_FUNCTIONAL_V")

TimingSentinel == "@ifndef SKY130_FD_SC_HD__LPFLOW_BLEEDER_1_TIMING_V"

broken_substr == "(SHORT => VPWR) = (0:0:0,0:0:0,0:0:0,0:0:0,0:0:0,0:0:0);"

\* the indices idx of lo..hi with sub in sl[idx]
IndicesOf(sl, lo, hi, sub) == {idx \in lo..hi : Contains(sl[idx], sub)}

\* DeleteSlice that leaves the last line of the slice in place
DeleteSliceOpen(sl, from, to) ==
    SubSeq(sl, 1, from - 1) \o SubSeq(sl, to, Len(sl))

\* sl[from:to+1] = [] (from and to are the 1-based places of the lines)
DeleteSlice(sl, from, to) ==
    SubSeq(sl, 1, from - 1) \o SubSeq(sl, to + 1, Len(sl))

\* "Additionally hack out the specifies": the exception it ends with and the
\* lines it leaves
\* the deletion: specifies and endspecifies are the places between start_idx
\* and endif_idx of the lines that hold the two keywords
ExciseBlock(sl, specifies, endspecifies) ==
    IF specifies = {} \/ endspecifies = {}
    THEN [exc |-> ListIndexError, sl |-> sl]
    ELSE [exc |-> NoError,
          sl |-> DeleteSlice(sl, First(specifies), First(endspecifies))]

\* the search after start_idx: broken and endifs are the places after it of
\* the lines that hold broken_substr and the closing directive
ExciseAfter(sl, start_idx, broken, endifs) ==
    IF broken = {} \/ endifs = {} THEN [exc |-> ListIndexError, sl |-> sl]
    ELSE IF ~(First(broken) < First(endifs)) THEN [exc |-> NoError, sl |-> sl]
    ELSE ExciseBlock(sl,
                     IndicesOf(sl, start_idx + 1, First(endifs) - 1, "specify"),
                     IndicesOf(sl, start_idx + 1, First(endifs) - 1, "endspecify"))

\* starts are the places of the lines that hold the sentinel
ExciseFrom(sl, starts) ==
    IF starts = {} THEN [exc |-> ListIndexError, sl |-> sl]
    ELSE ExciseAfter(sl, First(starts),
                     IndicesOf(sl, First(starts) + 1, Len(sl), broken_substr),
                     IndicesOf(sl, First(starts) + 1, Len(sl), "@endif"))

Excise(sl) == ExciseFrom(sl, IndicesOf(sl, 1, Len(sl), TimingSentinel))

\* re.search(r"^\s*wire SLEEP.*B.*delayed;", value)
IsDelayedWire(value) ==
    LET t == LStrip(value)
        rest == From(t, Len("wire SLEEP") + 1)
        b == Find(rest, "B")
    IN  /\ StartsWith(t, "wire SLEEP")
        /\ b # 0
        /\ Contains(From(rest, b + 1), "delayed;")

\* re.findall(r".*(SLEEP.*?B.*?delayed).*", value): the list holds at most
\* one name, the one that starts at the last SLEEP that a B and then delayed
\* follow, up to the first delayed after the first B; "" when it is empty
DelayedName(value) ==
    LET at == {p \in 1..Len(value) :
                  /\ StartsWith(From(value, p), "SLEEP")
                  /\ LET b == Find(From(value, p + 5), "B")
                     IN  b # 0 /\ Contains(From(value, p + 5 + b), "delayed")}
        p == CHOOSE q \in at : \A r \in at : r <= q
        b == p + 4 + Find(From(value, p + 5), "B")
        d == b + Find(From(value, b + 1), "delayed")
    IN  IF at = {} THEN "" ELSE SubSeq(value, p, d + Len("delayed") - 1)

\* "Deal with the nonexistent net tactfully": every line after a declaration
\* of a delayed net, up to the next declaration, gets the name it refers to
\* replaced by the declared one
\* the place of the last declaration before line idx, 0 when there is none
LastBefore(pattern_idx, idx) ==
    IF \A d \in pattern_idx : d >= idx THEN 0
    ELSE CHOOSE d \in pattern_idx :
             d < idx /\ \A e \in pattern_idx : e < idx => e <= d

\* a line that refers to elem where declared is the declared name
HarmonizeLine(line, elem, declared) ==
    IF elem = "" \/ elem = declared THEN line ELSE Replace(line, elem, declared)

\* line idx, governed by the declaration at place d
HarmonizeAt(sl, pattern_idx, idx, d) ==
    IF idx \in pattern_idx \/ d = 0 THEN sl[idx]
    ELSE HarmonizeLine(sl[idx], DelayedName(sl[idx]), DelayedName(sl[d]))

HarmonizeFrom(sl, pattern_idx) ==
    [idx \in 1..Len(sl) |-> HarmonizeAt(sl, pattern_idx, idx, LastBefore(pattern_idx, idx))]

HarmonizeNets(sl) == HarmonizeFrom(sl, {idx \in 1..Len(sl) : IsDelayedWire(sl[idx])})

PrimitivesLine(line) == Replace(line, "@default_nettype none", "@default_nettype wire")

\* the second half of setup_verilog: primitives.v
\* the loop over the lines sf of primitives.v
PrimitivesLines(sf) == [i \in 1..Len(sf) |-> PrimitivesLine(sf[i])]

SetupPrimitives(store, files, lib, writes) ==
    LET source_path == PrimitivesSource(store, lib)
    IN  IF ~Exists(files, source_path)
        THEN JobResult(Raise("FileNotFoundError", "Verilog not found: " \o source_path),
                       files, writes)
        ELSE JobResult(NoError,
                       Write(OpenForWrite(files, PrimitivesDest), PrimitivesDest,
                             PrimitivesLines(ReadLines(files, source_path))),
                       Append(writes, PrimitivesDest))

\* the first pass over the lines sf of the source
VerilogLines(sf) == [i \in 1..Len(sf) |-> VerilogLine(sf[i])]

\* the write-back of the lines that the excision left, then primitives.v;
\* pass1 is the file system that the first pass left
VerilogWriteBack(store, pass1, lib, dest_path, excised) ==
    IF excised.exc # NoError THEN JobResult(excised.exc, pass1, <<dest_path>>)
    ELSE SetupPrimitives(store,
                         Write(OpenForWrite(pass1, dest_path), dest_path,
                               HarmonizeNets(excised.sl)),
                         lib, <<dest_path>>)

\* the second pass, over the lines read back from the destination
VerilogSecondPass(store, pass1, lib, dest_path) ==
    VerilogWriteBack(store, pass1, lib, dest_path, Excise(ReadLines(pass1, dest_path)))

setup_verilog(store, files, lib) ==
    IF lib = None THEN JobResult(NoLibraryName, files, <<>>)
    ELSE
    LET source_path == VerilogSource(store, lib)
        dest_path == VerilogDest(lib)
    IN  IF ~Exists(files, source_path)
        THEN JobResult(Raise("FileNotFoundError", "Verilog not found: " \o source_path),
                       files, <<>>)
        ELSE VerilogSecondPass(store,
                 Write(OpenForWrite(files, dest_path), dest_path,
                       VerilogLines(ReadLines(files, source_path))),
                 lib, dest_path)

(***************************************************************************)
(* setup_techlef                                                           *)
(***************************************************************************)
TechlefSource(store, lib) ==
    PathJoin(<<GetSetting(store, K_sky130A), "libs.ref", lib, "techlef",
               lib \o "__nom.tlef">>)

TechlefDest(lib) == PathJoin(<<cache_dir, lib \o "__nom.tlef">>)

the_tlef_edit == "\nLAYER licon\n  TYPE CUT ;\nEND licon\n"

\* what the loop writes for one line of the source
TechlefLine(line) ==
    IF Strip(line) = "END pwell" THEN line \o the_tlef_edit ELSE line

\* the loop over the lines sf of the source
TechlefLines(sf) == [i \in 1..Len(sf) |-> TechlefLine(sf[i])]

\* setup_techlef that opens its destination before it looks for the source
setup_techlef_opening_first(store, files, lib) ==
    IF lib = None THEN JobResult(NoLibraryName, files, <<>>)
    ELSE
    LET source_path == TechlefSource(store, lib)
        dest_path == TechlefDest(lib)
    IN  IF ~Exists(files, source_path)
        THEN JobResult(Raise("FileNotFoundError", "Tech-LEF not found: " \o source_path),
                       OpenForWrite(files, dest_path), <<dest_path>>)
        ELSE JobResult(NoError,
                       Write(OpenForWrite(files, dest_path), dest_path,
                             TechlefLines(ReadLines(files, source_path))),
                       <<dest_path>>)

setup_techlef(store, files, lib) ==
    IF lib = None THEN JobResult(NoLibraryName, files, <<>>)
    ELSE
    LET source_path == TechlefSource(store, lib)
        dest_path == TechlefDest(lib)
    IN  IF ~Exists(files, source_path)
        THEN JobResult(Raise("FileNotFoundError", "Tech-LEF not found: " \o source_path),
                       files, <<>>)
        ELSE JobResult(NoError,
                       Write(OpenForWrite(files, dest_path), dest_path,
                             TechlefLines(ReadLines(files, source_path))),
                       <<dest_path>>)

(***************************************************************************)
(* setup_io_lefs                                                           *)
(***************************************************************************)
IoLefSource(store) ==
    PathJoin(<<GetSetting(store, K_sky130A), "libs.ref", "sky130_fd_io", "lef",
               "sky130_ef_io.lef">>)

IoLefDest == PathJoin(<<cache_dir, "sky130_ef_io.lef">>)

\* ClassCore that stops at the first PORT line of sl[from:to]
ClassCoreFirstPort(sl, from, to) ==
    [idx \in 1..Len(sl) |->
        IF /\ from <= idx /\ idx < to /\ Contains(sl[idx], "PORT")
           /\ \A j \in from..(idx - 1) : ~Contains(sl[j], "PORT")
        THEN Replace(sl[idx], "PORT", "PORT\n      CLASS CORE ;")
        ELSE sl[idx]]

\* the PORT lines of sl[from:to] get CLASS CORE
ClassCore(sl, from, to) ==
    [idx \in 1..Len(sl) |->
        IF from <= idx /\ idx < to /\ Contains(sl[idx], "PORT")
        THEN Replace(sl[idx], "PORT", "PORT\n      CLASS CORE ;")
        ELSE sl[idx]]

\* for intv in zip(start, end), from the k-th pair on
RECURSIVE ClassCoreIntervals(_, _, _, _)
ClassCoreIntervals(sl, start, end, k) ==
    IF k > Len(start) \/ k > Len(end) THEN sl
    ELSE ClassCoreIntervals(ClassCore(sl, start[k], end[k]), start, end, k + 1)

ClassCoreNet(sl, net) ==
    ClassCoreIntervals(sl,
                       Ascending(IndicesOf(sl, 1, Len(sl), "PIN " \o net)),
                       Ascending(IndicesOf(sl, 1, Len(sl), "END " \o net)), 1)

SpacerCells ==
    <<"sky130_ef_io__connect_vcchib_vccd_and_vswitch_vddio_slice_20um",
      "sky130_ef_io__disconnect_vccd_slice_5um",
      "sky130_ef_io__disconnect_vdda_slice_5um">>

\* "force class to spacer", from the k-th cell on
RECURSIVE ForceSpacer(_, _)
RECURSIVE ForceSpacerAt(_, _, _)
\* the k-th cell, start the places of the lines that hold its MACRO header
ForceSpacerAt(sl, k, start) ==
    IF start = {} \/ First(start) + 1 > Len(sl)
    THEN [exc |-> ListIndexError, sl |-> sl]
    ELSE ForceSpacer([idx \in 1..Len(sl) |->
                         IF idx = First(start) + 1
                         THEN Replace(sl[idx], "AREAIO", "SPACER")
                         ELSE sl[idx]], k + 1)

ForceSpacer(sl, k) ==
    IF k > Len(SpacerCells) THEN [exc |-> NoError, sl |-> sl]
    ELSE ForceSpacerAt(sl, k, IndicesOf(sl, 1, Len(sl), "MACRO " \o SpacerCells[k]))

\* df.writelines(sl), reached when the edits of the lines ended as spaced;
\* df is the file system with the destination open
IoLefWrite(df, dest_path, spaced) ==
    IF spaced.exc # NoError THEN JobResult(spaced.exc, df, <<dest_path>>)
    ELSE JobResult(NoError, Write(df, dest_path, spaced.sl), <<dest_path>>)

setup_io_lefs(store, files) ==
    LET source_path == IoLefSource(store)
        dest_path == IoLefDest
    IN  IF ~Exists(files, source_path)
        THEN JobResult(Raise("FileNotFoundError", "IO LEF not found: " \o source_path),
                       files, <<>>)
        ELSE IoLefWrite(OpenForWrite(files, dest_path), dest_path,
                 ForceSpacer(ClassCoreNet(ClassCoreNet(ReadLines(files, source_path),
                                                       "VCCD1"),
                                          "VSSD1"), 1))

(***************************************************************************)
(* post_install_script                                                     *)
(***************************************************************************)
\* the script after job, which was run on the file system that the jobs
\* done before it left
Sequel(done, job) == JobResult(job.exc, job.fs, done.writes \o job.writes)

\* the jobs of family sky130_fd_sc_hd, one after the other until one raises
HdTechlef(store, lib, done) ==
    IF done.exc # NoError THEN done
    ELSE Sequel(done, setup_techlef(store, done.fs, lib))

HdVerilog(store, lib, done) ==
    IF done.exc # NoError THEN done
    ELSE HdTechlef(store, lib, Sequel(done, setup_verilog(store, done.fs, lib)))

HdJobs(store, files, lib) == HdVerilog(store, lib, setup_cdl(store, files, lib))

\* self.setup_io_lefs(), reached when no job before it raised
IoJob(store, done) ==
    IF done.exc # NoError THEN done
    ELSE Sequel(done, setup_io_lefs(store, done.fs))

\* the object and the file system as the script leaves them
Installed(lib, sram22, done) ==
    [library_name |-> lib, use_sram22 |-> <<sram22>>,
     exc |-> done.exc, fs |-> done.fs, writes |-> done.writes]

post_install_script(store, files) ==
    Installed("sky130_fd_sc_hd", Exists(files, GetSetting(store, K_sram22)),
              IoJob(store, IF GetSetting(store, K_slib) = "sky130_fd_sc_hd"
                           THEN HdJobs(store, files, "sky130_fd_sc_hd")
                           ELSE JobResult(NoError, files, <<>>)))

(***************************************************************************)
(* The hook registry: the lookups and the end-cap action.  A hook action   *)
(* is held by the name of its function.                                    *)
(***************************************************************************)
K_drc_blackbox == "technology.sky130.drc_blackbox_srams"
K_lvs_blackbox == "technology.sky130.lvs_blackbox_srams"

\* HammerToolHookAction: the stage, the position and the action
HookAction(target_name, location, func) ==
    [target_name |-> target_name, location |-> location, func |-> func]

\* HammerTool.make_post_insertion_hook / make_pre_insertion_hook
make_post_insertion_hook(step, func) == HookAction(step, "after", func)

make_pre_insertion_hook(step, func) == HookAction(step, "before", func)

\* dict.get(tool_name, []) on the table of a lookup
HooksGet(table, tool_name) ==
    IF tool_name \in DOMAIN table THEN table[tool_name] ELSE <<>>

\* what a lookup returns or raises
LookupResult(exc, list) == [exc |-> exc, list |-> list]

\* get_tech_par_hooks that returns the actions of innovus for every tool
get_tech_par_hooks_any(tool_name) ==
    LookupResult(NoError,
        <<make_post_insertion_hook("init_design", "sky130_innovus_settings"),
          make_pre_insertion_hook("place_tap_cells", "sky130_add_endcaps"),
          make_pre_insertion_hook("power_straps", "sky130_connect_nets"),
          make_pre_insertion_hook("write_design", "sky130_connect_nets2")>>)

get_tech_par_hooks(tool_name) ==
    LookupResult(NoError,
        HooksGet("innovus" :>
                   <<make_post_insertion_hook("init_design", "sky130_innovus_settings"),
                     make_pre_insertion_hook("place_tap_cells", "sky130_add_endcaps"),
                     make_pre_insertion_hook("power_straps", "sky130_connect_nets"),
                     make_pre_insertion_hook("write_design", "sky130_connect_nets2")>>,
                 tool_name))

get_tech_drc_hooks(store, tool_name) ==
    LookupResult(NoError,
        HooksGet(("calibre" :>
                    IF GetSetting(store, K_drc_blackbox)
                    THEN <<make_post_insertion_hook("generate_drc_run_file",
                                                    "calibre_drc_blackbox_srams")>>
                    ELSE <<>>)
                 @@ ("pegasus" :>
                    IF GetSetting(store, K_drc_blackbox)
                    THEN <<make_post_insertion_hook("generate_drc_ctl_file",
                                                    "pegasus_drc_blackbox_srams")>>
                    ELSE <<>>),
                 tool_name))

\* reading self.use_sram22 before post_install_script has assigned it
NoUseSram22 ==
    Raise("AttributeError", "'SKY130Tech' object has no attribute 'use_sram22'")

\* the hooks of calibre: sram22 is self.use_sram22, blackbox the setting
CalibreLvsHooks(sram22, blackbox) ==
    <<make_post_insertion_hook("generate_lvs_run_file", "setup_calibre_lvs_deck")>>
    \o (IF sram22
        THEN <<make_post_insertion_hook("generate_lvs_run_file",
                                        "sram22_lvs_recognize_gates_all")>>
        ELSE <<>>)
    \o (IF blackbox
        THEN <<make_post_insertion_hook("generate_lvs_run_file",
                                        "calibre_lvs_blackbox_srams")>>
        ELSE <<>>)

PegasusLvsHooks(blackbox) ==
    IF blackbox
    THEN <<make_post_insertion_hook("generate_lvs_ctl_file",
                                    "pegasus_lvs_blackbox_srams")>>
    ELSE <<>>

\* sram22 is <<>> until post_install_script has assigned self.use_sram22
get_tech_lvs_hooks(store, sram22, tool_name) ==
    IF sram22 = <<>> THEN LookupResult(NoUseSram22, <<>>)
    ELSE LookupResult(NoError,
             HooksGet(("calibre" :> CalibreLvsHooks(sram22[1],
                                                    GetSetting(store, K_lvs_blackbox)))
                      @@ ("pegasus" :> PegasusLvsHooks(GetSetting(store, K_lvs_blackbox))),
                      tool_name))

\* the session of a running tool: the tool, the script text appended to it,
\* and how the action run last on it ended (returned is <<>> when it raised)
Session(tool, output, exc, returned) ==
    [tool |-> tool, output |-> output, exc |-> exc, returned |-> returned]

\* isinstance(ht, HammerPlaceAndRouteTool) and isinstance(ht, TCLTool)
IsParTool(tool) == tool \in {"innovus", "openroad"}

IsTclTool(tool) == tool \in {"innovus", "genus"}

\* ht.technology.get_special_cell_by_type(cell_type)
RECURSIVE CellsOfType(_, _, _)
CellsOfType(cells, cell_type, i) ==
    IF i > Len(cells) THEN <<>>
    ELSE (IF cells[i].cell_type = cell_type THEN <<cells[i]>> ELSE <<>>)
         \o CellsOfType(cells, cell_type, i + 1)

get_special_cell_by_type(conf, cell_type) ==
    CellsOfType(conf.special_cells, cell_type, 1)

\* ht.append of the end-cap commands
EndcapCommands(endcap_cell) ==
    "\nset_db add_endcaps_boundary_tap     true"
    \o "\nset_db add_endcaps_left_edge        " \o endcap_cell
    \o "\nset_db add_endcaps_right_edge       " \o endcap_cell
    \o "\nadd_endcaps\n    "

\* sky130_add_endcaps from endcap_cells on
AddEndcapCells(ht, endcap_cells) ==
    IF endcap_cells = <<>> THEN Session(ht.tool, ht.output, ListIndexError, <<>>)
    ELSE IF endcap_cells[1].name = <<>>
    THEN Session(ht.tool, ht.output, ListIndexError, <<>>)
    ELSE Session(ht.tool, Append(ht.output, EndcapCommands(endcap_cells[1].name[1])),
                 NoError, <<TRUE>>)

sky130_add_endcaps(ht, conf) ==
    IF ~IsParTool(ht.tool)
    THEN Session(ht.tool, ht.output,
                 Raise("AssertionError", "endcap insertion only for par"), <<>>)
    ELSE IF ~IsTclTool(ht.tool)
    THEN Session(ht.tool, ht.output,
                 Raise("AssertionError", "endcap insertion can only run on TCL tools"),
                 <<>>)
    ELSE AddEndcapCells(ht, get_special_cell_by_type(conf, "endcap"))

(***************************************************************************)
(* pegasus_lvs_blackbox_srams: the rewrite of the generated control file.  *)
(* The control file is held as the text that f.read() returns.             *)
(***************************************************************************)
\* the bundled catalog of SRAM macros, held as the list of its names
SramCacheJson == "hammer/technology/sky130/sram-cache.json"

\* ht.lvs_ctl_file
LvsCtlFile == "build/lvs-rundir/pegasus.ctl"

\* SKY130Tech.sky130_sram_names(): d['name'] of every entry of the catalog
sky130_sram_names(files) == files[SramCacheJson]

\* isinstance(ht, HammerLVSTool)
IsLvsTool(tool) == tool \in {"calibre", "pegasus", "netgen"}

\* lvs_box: one line for every name, each led by its newline
RECURSIVE LvsBox(_)
LvsBox(names) ==
    IF names = <<>> THEN ""
    ELSE "\nlvs_black_box " \o Head(names) \o " -gray" \o LvsBox(Tail(names))

\* (name|...) matches in body at or after place from and ends at or before
\* place to; the group of an empty catalog matches the empty text
NameWithin(body, names, from, to) ==
    \/ names = <<>> /\ from <= to + 1
    \/ \E k \in 1..Len(names) : \E q \in from..(to - Len(names[k]) + 1) :
          SubSeq(body, q, q + Len(names[k]) - 1) = names[k]

\* schematic_path.*(name|...).*spice;\n matches in a line (body is the line
\* without its newline), from the first schematic_path on: the dot matches no
\* newline, so a match lies in one line and ends with it
LineMatches(body, names) ==
    \E at \in {Find(body, "schematic_path")} :
        /\ at # 0
        /\ Len(body) >= 6 /\ From(body, Len(body) - 5) = "spice;"
        /\ NameWithin(body, names, at + 14, Len(body) - 6)

\* matcher.sub("", contents) on the pieces that split('\n') makes of the
\* contents: a line that matches keeps what stands before the match and
\* loses the rest with its newline; the piece after the last newline has no
\* newline and cannot match
RECURSIVE SubPieces(_, _)
SubPieces(pieces, names) ==
    IF Len(pieces) = 1 THEN pieces[1]
    ELSE (IF LineMatches(pieces[1], names)
          THEN SubSeq(pieces[1], 1, Find(pieces[1], "schematic_path") - 1)
          ELSE pieces[1] \o "\n")
         \o SubPieces(Tail(pieces), names)

MatcherSub(contents, names) == SubPieces(Split(contents, "\n"), names)

\* f.seek(0); f.write(text) on a file opened with r+ that holds old: the
\* text replaces the first len(text) characters, what lies beyond them stays
SeekWrite(old, text) ==
    IF Len(text) >= Len(old) THEN text
    ELSE text \o SubSeq(old, Len(text) + 1, Len(old))

\* how a file action ended: the exception, the files, the value returned
Rewritten(exc, files, returned) ==
    [exc |-> exc, fs |-> files, returned |-> returned]

pegasus_lvs_blackbox_srams(tool, files) ==
    IF ~IsLvsTool(tool)
    THEN Rewritten(Raise("AssertionError", "Blackbox and filter SRAMs only in LVS"),
                   files, <<>>)
    ELSE IF ~Exists(files, LvsCtlFile)
    THEN Rewritten(Raise("FileNotFoundError", LvsCtlFile), files, <<>>)
    ELSE Rewritten(NoError,
                   With(files, LvsCtlFile,
                        SeekWrite(files[LvsCtlFile],
                                  MatcherSub(files[LvsCtlFile], sky130_sram_names(files))
                                  \o LvsBox(sky130_sram_names(files)))),
                   <<TRUE>>)

(***************************************************************************)
(* State.                                                                  *)
(*   settings  the host settings store                                     *)
(*   fs        the file system: the vendor tree and the cache directory    *)
(*             (a text file as its lines), the SRAM catalog (its names)    *)
(*             and the generated LVS control file (its text)               *)
(*   config    self.config: <<>> until assigned, then <<descriptor>>       *)
(*   last      the call made last: its name, the exception it ended with,  *)
(*             its set_setting calls, and settings, config and fs as they  *)
(*             were when it was called                                     *)
(*   library_name  self.library_name, None until post_install_script sets  *)
(*             it                                                          *)
(*   use_sram22    self.use_sram22: <<>> until post_install_script sets    *)
(*             it, then <<TRUE>> or <<FALSE>>                              *)
(*   hooks     the hook lookup made last: the method, the tool asked for,  *)
(*             the exception it ended with and the list it returned        *)
(*   session   the session of the tool that the host runs                  *)
(***************************************************************************)
VARIABLES settings, fs, config, last, library_name, use_sram22, hooks, session

vars == <<settings, fs, config, last, library_name, use_sram22, hooks, session>>

SKY130A_ROOT == "/pdk/sky130A"
CDS_ROOT == "/pdk/sky130_cds"
SCL_ROOT == "/pdk/sky130_scl"
SRAM22_ROOT == "/pdk/sram22_sky130_macros"

IoLibDir == PathJoin(<<SKY130A_ROOT, "libs.ref", "sky130_fd_io", "lib">>)
HdLibDir == PathJoin(<<SKY130A_ROOT, "libs.ref", "sky130_fd_sc_hd", "lib">>)
SclLibDir == PathJoin(<<SCL_ROOT, "lib">>)
HdMinTlef == PathJoin(<<SKY130A_ROOT, "libs.ref", "sky130_fd_sc_hd", "techlef",
                        "sky130_fd_sc_hd__min.tlef">>)
SclTlef == PathJoin(<<SCL_ROOT, "lef", "sky130_scl_9T.tlef">>)

\* values of technology.sky130.stdcell_library the host may select
SlibValues == {"sky130_fd_sc_hd", "sky130_scl", "sky130_fd_sc_hs"}

\* corner files a vendor tree may hold, in the order the file system lists them
IoPool ==
    <<"sky130_fd_io__top_tt_tt_025C_1v80_3v30_nointpwr.lib",
      "sky130_fd_io__top_ss_ss_100C_1v60_1v65.lib",
      "sky130_fd_io__top_ff_ff_n40C_1v95_5v50.lib",
      "sky130_ef_io__gpiov2_pad_wrapped_tt_025C_1v80_3v30.lib",
      "cellname_ff_ss_n40C_1v95",
      "cellname_ff_ff_n40C_1v95",
      "sky130_fd_io__top_ss_ss_100C_1v60_3v00_1v65.lib",
      "sky130_fd_io__top_sf_100C_1v60_3v00.lib",
      "sky130_fd_io__top_tt_hot_1v80_3v30.lib",
      "sky130_fd_io__top_tt_025C_180_3v30.lib">>

HdPool ==
    <<"sky130_fd_sc_hd__tt_025C_1v80.lib",
      "sky130_fd_sc_hd__ff_n40C_1v95_ccsnoise.lib",
      "sky130_fd_sc_hd__ff_n40C_1v95.lib",
      "sky130_fd_sc_hd__sf_100C_1v60.lib",
      "sky130_fd_sc_hd__tt_025C_180.lib",
      "sky130_fd_sc_hd__tt_025C_1v80_nointpwr.lib",
      "README.md">>

SclPool ==
    <<"sky130_tt_1.8_25_nldm.lib",
      "sky130_ff_1.98_0_nldm_ccsnoise.lib",
      "sky130_ff_1.98_0_nldm.lib",
      "sky130_sf_1.62_125_nldm.lib",
      "sky130_tt_1.8_25_nointpwr.lib",
      "sky130_tt_n40C_1v95.lib">>

\* the listings of at most n names of pool[i..], in the order of pool
RECURSIVE Listings(_, _, _)
Listings(pool, i, n) ==
    IF i > Len(pool) \/ n = 0 THEN {<<>>}
    ELSE Listings(pool, i + 1, n)
         \cup {<<pool[i]>> \o q : q \in Listings(pool, i + 1, n - 1)}

\* the vendor tree as installed: every directory holds one well-formed file
NominalTree ==
    (IoLibDir :> <<"sky130_fd_io__top_ff_ff_n40C_1v95_5v50.lib">>)
    @@ (HdLibDir :> <<"sky130_fd_sc_hd__tt_025C_1v80.lib">>)
    @@ (SclLibDir :> <<"sky130_tt_1.8_25_nldm.lib">>)
    @@ (HdMinTlef :> <<"li1", "met1">>)
    @@ (SclTlef :> <<"met1", "met2">>)

\* the contents path may have in a vendor tree
GenContents(path) ==
    CASE path = IoLibDir -> Listings(IoPool, 1, MaxFiles)
      [] path = HdLibDir -> Listings(HdPool, 1, MaxFiles)
      [] path = SclLibDir -> Listings(SclPool, 1, MaxFiles)
      [] OTHER -> {NominalTree[path]}

\* the trees gen_config is run on: the nominal tree with one entry missing
\* or replaced
GenTrees ==
    {Without(NominalTree, path) : path \in DOMAIN NominalTree}
    \cup UNION {{With(NominalTree, path, c) : c \in GenContents(path)} :
                  path \in DOMAIN NominalTree}

InitialSettings(slib) ==
    (K_slib :> slib) @@ (K_sky130A :> SKY130A_ROOT) @@ (K_cds :> CDS_ROOT)
    @@ (K_scl :> SCL_ROOT) @@ (K_cgm :> "auto") @@ (K_lvs :> "hammer.lvs.calibre")
    @@ (K_sram22 :> SRAM22_ROOT)

\* no lookup made yet / no tool started yet
NoLookup == [op |-> "none", tool |-> "", exc |-> NoError, list |-> <<>>]

NoSession == [tool |-> "", output |-> <<>>, exc |-> NoError, returned |-> <<>>]

NoCall(store, files) ==
    [op |-> "none", exc |-> NoError, writes |-> <<>>,
     settings0 |-> store, config0 |-> <<>>, fs0 |-> files]

InitGen ==
    /\ \E slib \in SlibValues : settings = InitialSettings(slib)
    /\ fs \in GenTrees
    /\ config = <<>>
    /\ last = NoCall(settings, fs)
    /\ library_name = None
    /\ use_sram22 = <<>>
    /\ hooks = NoLookup
    /\ session = NoSession

\* the host calls gen_config
GenConfig ==
    \E r \in {gen_config(settings, fs, config)} :
        /\ settings' = r.settings
        /\ config' = r.config
        /\ last' = [op |-> "gen_config", exc |-> r.exc, writes |-> r.writes,
                    settings0 |-> settings, config0 |-> config, fs0 |-> fs]
        /\ UNCHANGED <<fs, library_name, use_sram22, hooks, session>>

\* the host selects another standard-cell family
HostSelect ==
    /\ \E slib \in SlibValues \ {settings[K_slib]} :
          settings' = SetSetting(settings, K_slib, slib)
    /\ last' = [op |-> "host_select", exc |-> NoError, writes |-> <<>>,
                settings0 |-> settings, config0 |-> config, fs0 |-> fs]
    /\ UNCHANGED <<fs, config, library_name, use_sram22, hooks, session>>

NextGen == GenConfig \/ HostSelect

SpecGen == InitGen /\ [][NextGen]_vars

(***************************************************************************)
(* Properties of gen_config, checked under SpecGen.                        *)
(***************************************************************************)
Families == {"sky130_fd_sc_hd", "sky130_scl"}

ProcessCodes == {"ff", "ss", "tt"}

\* the last call was gen_config / and it returned
AfterGen == last.op = "gen_config"

Returned == AfterGen /\ last.exc = NoError

\* the family selected when the last call was made
Slib0 == last.settings0[K_slib]

\* the records of the descriptor (in a state where gen_config returned)
Libs == config[1].libraries

Elems(q) == {q[i] : i \in 1..Len(q)}

FilesIn(dir) == IF dir \in DOMAIN fs THEN Elems(fs[dir]) ELSE {}

IoFiles == FilesIn(IoLibDir)

\* the directory of the selected family, as the records name it
StdDir == IF Slib0 = "sky130_scl" THEN SclLibDir ELSE HdLibDir

StdPrefix == IF Slib0 = "sky130_scl" THEN SCL_ROOT \o "/lib/"
             ELSE "$SKY130A/libs.ref/sky130_fd_sc_hd/lib/"

\* the positions of the records whose timing model is file f
IoRecordsOf(f) ==
    {i \in DOMAIN Libs :
        Libs[i].nldm_liberty_file = "$SKY130A/libs.ref/sky130_fd_io/lib/" \o f}

StdRecordsOf(f) == {i \in DOMAIN Libs : Libs[i].nldm_liberty_file = StdPrefix \o f}

\* the records that carry a corner
CornerRecords == {i \in DOMAIN Libs : Libs[i].corner # NoCorner}

\* the stdcell part of the vendor tree is the nominal one
StdTreeNominal ==
    \A path \in {HdLibDir, SclLibDir, HdMinTlef, SclTlef} :
        path \in DOMAIN fs /\ fs[path] = NominalTree[path]

\* the underscore-separated tokens of a file name, and those that follow its
\* last process token
NameTokens(f) == Split(Replace(f, ".lib", ""), "_")

LastProcess(f) ==
    LET toks == NameTokens(f)
        at == {i \in 1..Len(toks) : toks[i] \in ProcessCodes}
    IN  IF at = {} THEN 0 ELSE CHOOSE i \in at : \A j \in at : j <= i

TokensAfterProcess(f) ==
    IF LastProcess(f) = 0 THEN <<>>
    ELSE SubSeq(NameTokens(f), LastProcess(f) + 1, Len(NameTokens(f)))

\* the name holds two adjacent process tokens / and they are the same
ProcessPairs(f) ==
    {ab \in ProcessCodes \X ProcessCodes :
        Contains(f \o "_", "_" \o ab[1] \o "_" \o ab[2] \o "_")}

CrossCornerName(f) == ProcessPairs(f) # {}

SameHalves(f) == \E ab \in ProcessPairs(f) : ab[1] = ab[2]

\* f passes the internal-power and the secondary-voltage filter
KeptByIoFilters(f) ==
    LET tv == TokensAfterProcess(f)
    IN  /\ ~Contains(f, "nointpwr")
        /\ Len(tv) >= 3
        /\ ~StartsWith(tv[3], "1")
        /\ (Len(tv) = 4 => ~StartsWith(tv[4], "1"))

\* gen_config was called with a recognised family, an IO directory and the
\* nominal stdcell tree, so that only the IO files decide how it ends
IoDecides == AfterGen /\ Slib0 \in Families /\ StdTreeNominal /\ IoLibDir \in DOMAIN fs

\* f is removed by the internal-power or the secondary-voltage filter
RemovedByIoFilters(f) ==
    LET tv == TokensAfterProcess(f)
    IN  \/ Contains(f, "nointpwr")
        \/ Len(tv) >= 3 /\ StartsWith(tv[3], "1")
        \/ Len(tv) = 4 /\ StartsWith(tv[4], "1")

\* C1 as stated: a cross-corner IO file name (that no other filter removes)
\* gets a record, and no error, exactly when its two process tokens are
\* identical; in particular cellname_ff_ff_n40C_1v95 is accepted and
\* cellname_ff_ss_n40C_1v95 is rejected.
C1_CrossCornerIffIdentical ==
    IoDecides =>
        \A f \in IoFiles :
            (CrossCornerName(f) /\ ~RemovedByIoFilters(f) /\ IoFiles = {f}) =>
                (SameHalves(f) <=> (Returned /\ IoRecordsOf(f) # {}))

\* C1 amended: a cross-corner IO file name whose two process tokens differ
\* gets no record and causes no error; one whose tokens are identical is
\* handled like any other name: it gets a record exactly when it passes the
\* nointpwr and secondary-voltage filters, and gen_config raises when the
\* name has no secondary-voltage token (cellname_ff_ff_n40C_1v95).
C1_CrossCorner ==
    IoDecides =>
        \A f \in IoFiles :
            CrossCornerName(f) =>
                IF ~SameHalves(f)
                THEN /\ Returned => IoRecordsOf(f) = {}
                     /\ IoFiles = {f} => Returned
                ELSE /\ Returned => (IoRecordsOf(f) # {} <=> KeptByIoFilters(f))
                     /\ (~Contains(f, "nointpwr") /\ Len(TokensAfterProcess(f)) < 3)
                            => last.exc.type \in {"IndexError", "StopIteration"}
                     /\ (IoFiles = {f} /\ KeptByIoFilters(f)) => Returned

\* an identical cross-corner name has got its record
C1_Witness ==
    /\ IoDecides /\ Returned
    /\ \E f \in IoFiles : CrossCornerName(f) /\ SameHalves(f) /\ IoRecordsOf(f) # {}

\* C2 as stated: in every dialect the speed class of an emitted record is
\* fast, typical or slow; a name with another process code gets no record.
C2_SpeedClassClosed ==
    Returned => \A i \in CornerRecords :
                    /\ Libs[i].corner.nmos \in {"fast", "typical", "slow"}
                    /\ Libs[i].corner.pmos = Libs[i].corner.nmos

Digits == {"0", "1", "2", "3", "4", "5", "6", "7", "8", "9"}

IsDigits(t) == Len(t) > 0 /\ \A i \in 1..Len(t) : SubSeq(t, i, i) \in Digits

\* "<digits> C" or "-<digits> C"
WellFormedTemperature(t) ==
    /\ Len(t) > 2 /\ From(t, Len(t) - 1) = " C"
    /\ LET n == SubSeq(t, 1, Len(t) - 2)
       IN  IsDigits(n) \/ (StartsWith(n, "-") /\ IsDigits(From(n, 2)))

\* "<int>.<frac> V"
WellFormedVoltage(v) ==
    /\ Len(v) > 2 /\ From(v, Len(v) - 1) = " V"
    /\ LET parts == Split(SubSeq(v, 1, Len(v) - 2), ".")
       IN  Len(parts) = 2 /\ IsDigits(parts[1]) /\ IsDigits(parts[2])

\* C3 as stated: a malformed temperature or voltage token (or a missing
\* token) is fatal, so that no record is ever built from one: every record
\* of a descriptor has a temperature "<digits> C" or "-<digits> C" and a
\* supply "<int>.<frac> V".
C3_MalformedIsFatal ==
    Returned => \A i \in CornerRecords :
                    /\ WellFormedTemperature(Libs[i].corner.temperature)
                    /\ WellFormedVoltage(Libs[i].supplies.VDD)

\* the secondary-voltage tokens of an IO file name: the token after the
\* primary voltage, and the one after that when there are four in all
SecondaryVoltages(f) ==
    LET tv == TokensAfterProcess(f)
    IN  (IF Len(tv) >= 3 THEN {tv[3]} ELSE {}) \cup (IF Len(tv) = 4 THEN {tv[4]} ELSE {})

\* C4 as stated: an IO file whose secondary-voltage token does not start
\* with 1 gets no record.
C4_NotStartingWith1Excluded ==
    Returned =>
        \A f \in IoFiles :
            (\E v \in SecondaryVoltages(f) : ~StartsWith(v, "1")) => IoRecordsOf(f) = {}

\* C4 amended: an IO file with a secondary-voltage token that starts with 1
\* gets no record, and every IO file that gets a record has secondary-voltage
\* tokens that do not start with 1.
C4_LowVoltageExcluded ==
    Returned =>
        \A f \in IoFiles :
            /\ (\E v \in SecondaryVoltages(f) : StartsWith(v, "1")) => IoRecordsOf(f) = {}
            /\ IoRecordsOf(f) # {} =>
                  /\ SecondaryVoltages(f) # {}
                  /\ \A v \in SecondaryVoltages(f) : ~StartsWith(v, "1")

\* gen_config returned on a tree with a low secondary voltage file and with a
\* high secondary voltage file, which got its record
C4_Witness ==
    /\ Returned
    /\ \E f \in IoFiles : \E v \in SecondaryVoltages(f) : StartsWith(v, "1")
    /\ \E f \in IoFiles : IoRecordsOf(f) # {}

\* the stdcell files that have a ccsnoise duplicate in the same directory
WithNoiseDuplicate ==
    {f \in FilesIn(StdDir) :
        /\ Contains(f, "sky130") /\ ~Contains(f, "ccsnoise")
        /\ (Replace(f, ".lib", "") \o "_ccsnoise.lib") \in FilesIn(StdDir)}

NoiseDuplicateOf(f) == Replace(f, ".lib", "") \o "_ccsnoise.lib"

\* C5 as stated: no record names a nointpwr file, and a corner that has both
\* <corner>.lib and <corner>_ccsnoise.lib gets exactly one record, whose
\* timing model is <corner>.lib.
C5_CanonicalFilePreferred ==
    Returned =>
        /\ \A i \in DOMAIN Libs : ~Contains(Libs[i].nldm_liberty_file, "nointpwr")
        /\ \A f \in WithNoiseDuplicate :
              /\ Cardinality(StdRecordsOf(f) \cup StdRecordsOf(NoiseDuplicateOf(f))) = 1
              /\ StdRecordsOf(f) # {}

\* C5 amended: no IO record names a nointpwr file, and a stdcell corner that
\* has both <corner>.lib and <corner>_ccsnoise.lib gets exactly one record,
\* whose timing model is <corner>_ccsnoise.lib.
C5_NoiseFiltering ==
    Returned =>
        /\ \A f \in IoFiles : Contains(f, "nointpwr") => IoRecordsOf(f) = {}
        /\ \A f \in WithNoiseDuplicate :
              /\ Cardinality(StdRecordsOf(f) \cup StdRecordsOf(NoiseDuplicateOf(f))) = 1
              /\ StdRecordsOf(NoiseDuplicateOf(f)) # {}

\* gen_config returned on a stdcell directory with both files of a corner
C5_Witness == Returned /\ WithNoiseDuplicate # {}

\* the stdcell records of the descriptor
StdcellRecords == {i \in DOMAIN Libs : Libs[i].provides[1].lib_type = "stdcell"}

\* the cell types of the descriptor's special-cell table
CellTypes == {config[1].special_cells[i].cell_type : i \in DOMAIN config[1].special_cells}

C7_AllOrNothing ==
    (AfterGen /\ last.exc # NoError) =>
        config = last.config0 /\ settings = last.settings0

\* the IO-cell phase of the last call ran to its end
IoPhaseCompleted ==
    /\ Slib0 \in Families
    /\ IoLibDir \in DOMAIN last.fs0
    /\ CornerLoop("io", Sort(last.fs0[IoLibDir]), 1, <<>>, "", "").exc = NoError

\* C8 as stated: gen_config's only write to the settings store sets
\* synthesis.clock_gating_mode to the empty value, and it is made exactly
\* when the selected family is sky130_scl.
C8_WriteIffScl ==
    AfterGen =>
        /\ \A k \in DOMAIN settings : k # K_cgm => settings[k] = last.settings0[k]
        /\ (last.writes # <<>>) <=> (Slib0 = "sky130_scl")
        /\ last.writes # <<>> => last.writes = <<<<K_cgm, "">>>> /\ settings[K_cgm] = ""
        /\ last.writes = <<>> => settings = last.settings0

\* C8 amended: gen_config's only write to the settings store sets
\* synthesis.clock_gating_mode to the empty value; it is made exactly when
\* the selected family is sky130_scl and the IO-cell phase has completed
\* without raising (so on every call with sky130_scl that returns); with
\* sky130_fd_sc_hd every setting is left unchanged.
C8_ClockGatingWrite ==
    AfterGen =>
        /\ \A k \in DOMAIN settings : k # K_cgm => settings[k] = last.settings0[k]
        /\ (last.writes # <<>>) <=> (Slib0 = "sky130_scl" /\ IoPhaseCompleted)
        /\ (Returned /\ Slib0 = "sky130_scl") => last.writes # <<>>
        /\ last.writes # <<>> => last.writes = <<<<K_cgm, "">>>> /\ settings[K_cgm] = ""
        /\ last.writes = <<>> => settings = last.settings0

\* gen_config has disabled clock gating, which was enabled
C8_Witness ==
    /\ AfterGen /\ last.writes # <<>>
    /\ last.settings0[K_cgm] = "auto" /\ settings[K_cgm] = ""

\* the vendor lib directories that gen_config lists
LibDirs == {IoLibDir, HdLibDir, SclLibDir}

\* the orders in which a directory listing may return the names of q
ListingOrders(q) ==
    {p \in [1..Len(q) -> Elems(q)] : \A i, j \in 1..Len(q) : p[i] = p[j] => i = j}

\* the last call, made with the listing of dir in the order p, ends like the
\* last call did
SameOutcome(dir, p) ==
    \E r \in {gen_config(last.settings0, With(last.fs0, dir, p), last.config0)} :
        /\ r.exc = last.exc
        /\ r.config = config

\* the file name of a path
Basename(path) == Split(path, "/")[Len(Split(path, "/"))]

\* the corner file that record i was made of
RecordFile(i) == Replace(Basename(Libs[i].nldm_liberty_file), "_ccsnoise", "")

\* the records at the places of S follow each other in the order of their
\* file names
InFilenameOrder(S) ==
    \A i, j \in S : i < j => StrLess(RecordFile(i), RecordFile(j))

\* C18: the outcome of gen_config does not depend on the order in which the
\* listing of a library directory returns the names: with any other order of
\* the same names it raises the same exception or builds the same descriptor;
\* the records of a descriptor are the IO-spice entry, the technology entry,
\* the IO records in the order of their file names, then the stdcell records
\* in the order of their file names.
C18_ListingOrderIrrelevant ==
    /\ AfterGen =>
          \A dir \in LibDirs \cap DOMAIN last.fs0 :
              \A p \in ListingOrders(last.fs0[dir]) : SameOutcome(dir, p)
    /\ Returned =>
          /\ Libs[1] = IoSpiceLib
          /\ Libs[2] = TechnologyLib(Slib0)
          /\ CornerRecords = 3..Len(Libs)
          /\ InFilenameOrder(CornerRecords \ StdcellRecords)
          /\ InFilenameOrder(StdcellRecords)
          /\ \A i \in CornerRecords \ StdcellRecords : \A j \in StdcellRecords : i < j

\* gen_config returned on an IO directory that lists two names in descending
\* order, with a record for each
C18_Witness ==
    /\ Returned
    /\ IoLibDir \in DOMAIN last.fs0
    /\ Len(last.fs0[IoLibDir]) = 2
    /\ StrLess(last.fs0[IoLibDir][2], last.fs0[IoLibDir][1])
    /\ Cardinality(CornerRecords \ StdcellRecords) = 2

\* a token of the form n<digits>C or <digits>C
IsTemperatureToken(t) ==
    /\ Len(t) >= 2
    /\ SubSeq(t, Len(t), Len(t)) = "C"
    /\ \/ IsDigits(SubSeq(t, 1, Len(t) - 1))
       \/ SubSeq(t, 1, 1) = "n" /\ IsDigits(SubSeq(t, 2, Len(t) - 1))

\* a token of the form <int>v<frac>
IsVoltageToken(t) ==
    \E k \in 2..(Len(t) - 1) :
        /\ SubSeq(t, k, k) = "v"
        /\ IsDigits(SubSeq(t, 1, k - 1))
        /\ IsDigits(SubSeq(t, k + 1, Len(t)))

\* the first token of toks that has the form of a temperature
FirstTemperature(toks) ==
    {toks[k] : k \in {k \in 1..Len(toks) :
        /\ IsTemperatureToken(toks[k])
        /\ \A j \in 1..(k - 1) : ~IsTemperatureToken(toks[j])}}

\* the temperature token of a corner file name: the first token of that form
\* (empty when the name has none)
TemperatureTokens(f) == FirstTemperature(NameTokens(f))

\* the tokens of toks at the place of VDD that have the form of a voltage:
\* the token that follows the temperature token, and the second token after
\* the process code at place lastp (an IO name has secondary voltages after it)
VoltageAt(toks, temps, lastp) ==
    {toks[k] : k \in {k \in 2..Len(toks) :
        /\ toks[k - 1] \in temps \/ (lastp # 0 /\ k = lastp + 2)
        /\ IsVoltageToken(toks[k])}}

\* the voltage token of a corner file name (empty when the token at that
\* place is not of the form)
VoltageTokens(f) ==
    VoltageAt(NameTokens(f), TemperatureTokens(f), LastProcess(f))

\* -<digits> C for n<digits>C, <digits> C for <digits>C
SignedTemperature(t) ==
    IF SubSeq(t, 1, 1) = "n" THEN "-" \o SubSeq(t, 2, Len(t) - 1) \o " C"
    ELSE SubSeq(t, 1, Len(t) - 1) \o " C"

\* <int>.<frac> V for <int>v<frac>
DecimalVoltage(t) ==
    CHOOSE d \in {SubSeq(t, 1, k - 1) \o "." \o SubSeq(t, k + 1, Len(t)) \o " V" :
                    k \in {k \in 1..Len(t) : SubSeq(t, k, k) = "v"}} : TRUE

TemperatureAsNamed(i) ==
    \A t \in TemperatureTokens(RecordFile(i)) :
        Libs[i].corner.temperature = SignedTemperature(t)

VddAsNamed(i) ==
    \A t \in VoltageTokens(RecordFile(i)) :
        Libs[i].supplies.VDD = DecimalVoltage(t)

\* the records of the two dialects that parse the tokens: the IO records and
\* the stdcell records of sky130_fd_sc_hd
ParsedRecords ==
    {i \in CornerRecords : i \notin StdcellRecords \/ Slib0 = "sky130_fd_sc_hd"}

\* the stdcell records of sky130_scl
SclRecords == {i \in StdcellRecords : Slib0 = "sky130_scl"}

\* the process code of the file of an scl record
SclCode(i) == NameTokens(RecordFile(i))[2]

\* C19 as stated: for every record of a descriptor, IO or stdcell of either
\* family, whose file name has a temperature token n<digits>C or <digits>C,
\* the temperature of the record is -<digits> C or <digits> C.
C19_TemperatureParsed ==
    Returned => \A i \in CornerRecords : TemperatureAsNamed(i)

\* C19 as amended: that holds for the IO records and the stdcell records of
\* sky130_fd_sc_hd; a stdcell record of sky130_scl has the temperature fixed
\* for its process code (ff: -40 C, tt: 25 C, ss: 100 C, any other: empty)
\* whatever the other tokens of its name are.
C19_TemperatureParsedIoHd ==
    Returned =>
        /\ \A i \in ParsedRecords : TemperatureAsNamed(i)
        /\ \A i \in SclRecords :
              Libs[i].corner.temperature =
                  CASE SclCode(i) = "ff" -> "-40 C"
                    [] SclCode(i) = "tt" -> "25 C"
                    [] SclCode(i) = "ss" -> "100 C"
                    [] OTHER -> ""

\* a descriptor with an IO record of a n<digits>C name, a stdcell record of a
\* <digits>C name (sky130_fd_sc_hd)
C19_Witness ==
    /\ Returned
    /\ \E i \in ParsedRecords \ StdcellRecords :
          \E t \in TemperatureTokens(RecordFile(i)) : SubSeq(t, 1, 1) = "n"
    /\ \E i \in ParsedRecords \cap StdcellRecords :
          \E t \in TemperatureTokens(RecordFile(i)) : SubSeq(t, 1, 1) # "n"

\* an IO record and a stdcell record made of the same voltage token have the
\* same VDD
DialectsAgree(S) ==
    \A i \in S \ StdcellRecords :
        \A t \in VoltageTokens(RecordFile(i)) :
            \A j \in S \cap StdcellRecords :
                t \in VoltageTokens(RecordFile(j))
                => Libs[i].supplies.VDD = Libs[j].supplies.VDD

\* C20 as stated: for every record of a descriptor, IO or stdcell of either
\* family, whose file name has a voltage token <int>v<frac>, VDD is
\* <int>.<frac> V and GND is 0 V, and an IO record and a stdcell record of the
\* same token have the same VDD.
C20_VoltageParsed ==
    Returned =>
        /\ \A i \in CornerRecords : VddAsNamed(i) /\ Libs[i].supplies.GND = "0 V"
        /\ DialectsAgree(CornerRecords)

\* C20 as amended: that holds for the IO records and the stdcell records of
\* sky130_fd_sc_hd; a stdcell record of sky130_scl has GND 0 V and the VDD
\* fixed for its process code (ff: 1.95 V, tt: 1.80 V, ss: 1.60 V, any
\* other: empty) whatever the other tokens of its name are.
C20_VoltageParsedIoHd ==
    Returned =>
        /\ \A i \in ParsedRecords : VddAsNamed(i)
        /\ \A i \in CornerRecords : Libs[i].supplies.GND = "0 V"
        /\ DialectsAgree(ParsedRecords)
        /\ \A i \in SclRecords :
              Libs[i].supplies.VDD =
                  CASE SclCode(i) = "ff" -> "1.95 V"
                    [] SclCode(i) = "tt" -> "1.80 V"
                    [] SclCode(i) = "ss" -> "1.60 V"
                    [] OTHER -> ""

\* a descriptor with an IO record and a stdcell record of sky130_fd_sc_hd made
\* of the same voltage token
C20_Witness ==
    /\ Returned
    /\ \E i \in ParsedRecords \ StdcellRecords :
          \E j \in ParsedRecords \cap StdcellRecords :
              /\ VoltageTokens(RecordFile(i)) # {}
              /\ VoltageTokens(RecordFile(i)) = VoltageTokens(RecordFile(j))

(***************************************************************************)
(* The patch engine run on a vendor tree.                                  *)
(*   last      as before; the writes of post_install_script are the files  *)
(*             it opened for writing                                       *)
(***************************************************************************)
CdlFile == CdlSource(InitialSettings("sky130_fd_sc_hd"), "sky130_fd_sc_hd")
VerilogFile == VerilogSource(InitialSettings("sky130_fd_sc_hd"), "sky130_fd_sc_hd")
PrimitivesFile == PrimitivesSource(InitialSettings("sky130_fd_sc_hd"), "sky130_fd_sc_hd")
TechlefFile == TechlefSource(InitialSettings("sky130_fd_sc_hd"), "sky130_fd_sc_hd")
IoLefFile == IoLefSource(InitialSettings("sky130_fd_sc_hd"))

\* lines a vendor file may hold, in the order in which they may follow each
\* other
CdlPool ==
    <<".SUBCKT sky130_fd_sc_hd__inv_1 A VGND VNB VPB VPWR Y",
      "M0 Y A VPWR VPB pfet_01v8_hvt w=1 l=0.15",
      "M1 Y A VGND VNB nfet_01v8 w=0.65 l=0.15",
      "M2 Y A VGND VNB nfet_01v8_lvt w=0.65 l=0.15",
      ".ENDS">>

\* the lines with which every library model starts
VerilogHeader ==
    <<"@endif SKY130_FD_SC_HD__LPFLOW_BLEEDER_FUNCTIONAL_V", "  wire 1;">>

VerilogPool ==
    <<"@ifndef SKY130_FD_SC_HD__LPFLOW_BLEEDER_1_TIMING_V",
      "specify",
      "  wire SLEEP_B_delayed;",
      "(SHORT => VPWR) = (0:0:0,0:0:0,0:0:0,0:0:0,0:0:0,0:0:0);",
      "endspecify",
      "@endif",
      "  (SHORT => VPWR) = (0:0:0,0:0:0,0:0:0,0:0:0,0:0:0,0:0:0);",
      "  buf (X, SLEEPB_delayed);">>

\* lines of a library model whose specify block does not lie where the
\* malformed expression does
VerilogPoolApart ==
    <<"@ifndef SKY130_FD_SC_HD__LPFLOW_BLEEDER_1_TIMING_V",
      "endspecify",
      "(SHORT => VPWR) = (0:0:0,0:0:0,0:0:0,0:0:0,0:0:0,0:0:0);",
      "@endif",
      "specify",
      "endspecify">>

\* the lines with which a library model starts whose malformed expression
\* lies after the closing directive
VerilogNetsHeader ==
    <<"@ifndef SKY130_FD_SC_HD__LPFLOW_BLEEDER_1_TIMING_V",
      "@endif",
      "(SHORT => VPWR) = (0:0:0,0:0:0,0:0:0,0:0:0,0:0:0,0:0:0);">>

\* declarations of delayed nets and lines that refer to them
VerilogNetsPool ==
    <<"  buf (X, SLEEP1_B_delayed);",
      "  wire SLEEP1B_delayed;",
      "  and (Y, SLEEP1_B_delayed, A);",
      "  not (Z, SLEEP1B_delayed);",
      "  buf (W, Sleep1Bdelay);",
      "  or (V, SLEEP1_B_delayed, SLEEP1B_delayed);",
      "  wire SLEEP2B_delayed;",
      "  buf (U, SLEEP2_B_delayed);">>

PrimitivesPool ==
    <<"@default_nettype none",
      "primitive sky130_fd_sc_hd__udp_mux_2to1 (X, A0, A1, S);",
      "endprimitive",
      "@default_nettype wire">>

TechlefPool ==
    <<"LAYER pwell", "END pwell", "  END pwell ", "END pwell ;", "LAYER li1">>

IoLefPool ==
    <<"  PIN VCCD1", "    PORT", "  END VCCD1", "    PORT ;",
      "  PIN VSSD1", "  END VSSD1">>

\* pin blocks of an IO LEF, in the order in which they may follow each other
IoLefBlocks ==
    <<<<"  PIN VCCD1", "    PORT", "    END", "  END VCCD1">>,
      <<"  PIN VDDIO", "    PORT", "    END", "  END VDDIO">>,
      <<"  PIN VSSD1", "    PORT", "    END", "    PORT", "    END", "  END VSSD1">>,
      <<"  PIN VCCD1", "    DIRECTION INOUT ;", "    PORT", "    END", "  END VCCD1">>,
      <<"  PIN VSSD1", "    PORT", "    END", "  END VSSD1">>>>

\* the lines of the blocks of q, one block after the other
RECURSIVE Concat(_)
Concat(q) == IF q = <<>> THEN <<>> ELSE Head(q) \o Concat(Tail(q))

\* the three spacer macros as the vendor file declares them
IoLefMacros ==
    <<"MACRO sky130_ef_io__connect_vcchib_vccd_and_vswitch_vddio_slice_20um",
      "  CLASS PAD AREAIO ;",
      "MACRO sky130_ef_io__disconnect_vccd_slice_5um",
      "  CLASS PAD AREAIO ;",
      "MACRO sky130_ef_io__disconnect_vdda_slice_5um",
      "  CLASS PAD AREAIO ;">>

\* the vendor sources as installed
PatchNominal ==
    (CdlFile :> SubSeq(CdlPool, 1, 3) \o <<".ENDS">>)
    @@ (VerilogFile :> VerilogHeader \o <<VerilogPool[1], VerilogPool[2],
                                            VerilogPool[4], VerilogPool[5],
                                            VerilogPool[6]>>)
    @@ (PrimitivesFile :> SubSeq(PrimitivesPool, 1, 3))
    @@ (TechlefFile :> SubSeq(TechlefPool, 1, 2))
    @@ (IoLefFile :> SubSeq(IoLefPool, 1, 3) \o IoLefMacros)

\* the contents path may have in a vendor tree
PatchContents(path) ==
    CASE path = CdlFile -> Listings(CdlPool, 1, MaxLines)
      [] path = VerilogFile ->
           {VerilogHeader \o q : q \in Listings(VerilogPool, 1, MaxLines)
                                      \cup Listings(VerilogPoolApart, 1, MaxLines)}
           \cup {VerilogNetsHeader \o q : q \in Listings(VerilogNetsPool, 1, MaxLines)}
      [] path = PrimitivesFile -> Listings(PrimitivesPool, 1, MaxLines)
      [] path = TechlefFile -> Listings(TechlefPool, 1, MaxLines)
      [] path = IoLefFile ->
           {q \o IoLefMacros : q \in Listings(IoLefPool, 1, MaxLines)}
           \cup {SubSeq(IoLefMacros, 1, n) : n \in 0..(Len(IoLefMacros) - 1)}
           \cup {Concat(q) \o IoLefMacros : q \in Listings(IoLefBlocks, 1, MaxBlocks)}

\* the trees the patch engine is run on: the sources as installed with one
\* of them missing or replaced, or with the SRAM22 macros installed
PatchTrees ==
    {Without(PatchNominal, path) : path \in DOMAIN PatchNominal}
    \cup UNION {{With(PatchNominal, path, c) : c \in PatchContents(path)} :
                  path \in DOMAIN PatchNominal}
    \cup {With(PatchNominal, SRAM22_ROOT, <<>>)}

\* the files of the cache directory
Cached ==
    {CdlDest("sky130_fd_sc_hd"), VerilogDest("sky130_fd_sc_hd"), PrimitivesDest,
     TechlefDest("sky130_fd_sc_hd"), IoLefDest}

\* a cache directory left by an earlier installation
StaleCache == [path \in Cached |-> <<"* generated from an older source">>]

LvsTools == {"hammer.lvs.calibre", "hammer.lvs.netgen", "hammer.lvs.pegasus"}

\* the settings the host may have made
PatchSettings ==
    {InitialSettings(slib) : slib \in SlibValues}
    \cup {SetSetting(InitialSettings("sky130_fd_sc_hd"), K_lvs, tool) : tool \in LvsTools}

\* the settings that select family sky130_fd_sc_hd
HdSettings == {s \in PatchSettings : s[K_slib] = "sky130_fd_sc_hd"}

\* the settings and trees post_install_script is run on: the sources as
\* installed under every setting, with and without an older cache; every
\* tree under the default settings; every CDL source under every LVS tool
PatchInputs ==
    {<<s, c @@ PatchNominal>> : s \in PatchSettings, c \in {StaleCache, <<>>}}
    \cup {<<InitialSettings("sky130_fd_sc_hd"), StaleCache @@ tree>> : tree \in PatchTrees}
    \cup {<<s, StaleCache @@ With(PatchNominal, CdlFile, c)>> :
            s \in HdSettings, c \in PatchContents(CdlFile)}

InitPatch ==
    /\ \E input \in PatchInputs : settings = input[1] /\ fs = input[2]
    /\ config = <<>>
    /\ last = NoCall(settings, fs)
    /\ library_name = None
    /\ use_sram22 = <<>>
    /\ hooks = NoLookup
    /\ session = NoSession

\* the host calls post_install_script
PostInstallScript ==
    \E r \in {post_install_script(settings, fs)} :
        /\ fs' = r.fs
        /\ library_name' = r.library_name
        /\ use_sram22' = r.use_sram22
        /\ last' = [op |-> "post_install_script", exc |-> r.exc, writes |-> r.writes,
                    settings0 |-> settings, config0 |-> config, fs0 |-> fs]
        /\ UNCHANGED <<settings, config, hooks, session>>

NextPatch == PostInstallScript

SpecPatch == InitPatch /\ [][NextPatch]_vars

(***************************************************************************)
(* Properties of the patch engine, checked under SpecPatch.                *)
(***************************************************************************)
\* the last call was post_install_script
AfterInstall == last.op = "post_install_script"

\* files with other content in every destination that the last call wrote
Overwritten(files) ==
    [path \in DOMAIN files |->
        IF InList(path, last.writes) THEN <<"something else">> ELSE files[path]]

\* C9: post_install_script leaves every file outside the cache directory as
\* it was; run a second time on the state it leaves, it leaves every file as
\* the first run left it, so that every job it runs (setup_cdl,
\* setup_verilog, setup_techlef, setup_io_lefs) produces the same destination
\* both times; and what the jobs leave in their destinations does not depend
\* on what the destinations held before.
C9_PatchIdempotent ==
    AfterInstall =>
        /\ DOMAIN last.fs0 \subseteq DOMAIN fs
        /\ DOMAIN fs \subseteq DOMAIN last.fs0 \cup Cached
        /\ \A path \in DOMAIN last.fs0 \ Cached : fs[path] = last.fs0[path]
        /\ post_install_script(settings, fs).fs = fs
        /\ post_install_script(settings, Overwritten(fs)).fs = fs

\* post_install_script has run a second time with family sky130_fd_sc_hd: it
\* has regenerated the five destinations from their sources, and they are as
\* the first run left them
C9_Witness ==
    /\ AfterInstall /\ last.exc = NoError
    /\ Elems(last.writes) = Cached
    /\ last.fs0 = fs
    /\ \A dest \in Cached : fs[dest] # <<>> /\ fs[dest] # StaleCache[dest]
    /\ fs[CdlDest("sky130_fd_sc_hd")] # <<"*.SCALE MICRON">> \o fs[CdlFile]

\* setup_verilog has opened its first destination / the library model part
\* of setup_verilog has run to its end
VerilogStarted == AfterInstall /\ InList(VerilogDest("sky130_fd_sc_hd"), last.writes)

VerilogCompleted ==
    /\ VerilogStarted
    /\ \/ InList(PrimitivesDest, last.writes)
       \/ last.exc = Raise("FileNotFoundError", "Verilog not found: " \o PrimitivesFile)

\* the lines of sl whose places are not in drop
RECURSIVE Keep(_, _, _)
Keep(sl, drop, i) ==
    IF i > Len(sl) THEN <<>>
    ELSE (IF i \in drop THEN <<>> ELSE <<sl[i]>>) \o Keep(sl, drop, i + 1)

\* the source of the library model after the replacements of the first pass
VerilogFirstPass == [i \in 1..Len(fs[VerilogFile]) |-> VerilogLine(fs[VerilogFile][i])]

\* the place of the first line of sl[lo..hi] that holds sub, 0 when none does
FirstPlace(sl, sub, lo, hi) ==
    IF \A i \in lo..hi : ~Contains(sl[i], sub) THEN 0
    ELSE CHOOSE i \in lo..hi :
             Contains(sl[i], sub) /\ \A j \in lo..(i - 1) : ~Contains(sl[j], sub)

\* the first sentinel line of sl, and the first malformed expression and the
\* first closing directive after the sentinel line s (0 when there is none)
SentinelAt(sl) == FirstPlace(sl, TimingSentinel, 1, Len(sl))

MalformedAt(sl, s) ==
    IF s = 0 THEN 0 ELSE FirstPlace(sl, broken_substr, s + 1, Len(sl))

ClosingAt(sl, s) == IF s = 0 THEN 0 ELSE FirstPlace(sl, "@endif", s + 1, Len(sl))

\* the three occur in that order
InOrder(s, m, c) == 0 < s /\ s < m /\ m < c

\* the places from the first specify line to the first endspecify line after
\* the sentinel line s
SpecifyBlock(sl, s) ==
    IF FirstPlace(sl, "specify", s + 1, Len(sl)) = 0
       \/ FirstPlace(sl, "endspecify", s + 1, Len(sl)) = 0
    THEN {}
    ELSE FirstPlace(sl, "specify", s + 1, Len(sl))
           ..FirstPlace(sl, "endspecify", s + 1, Len(sl))

\* dest is what setup_verilog leaves of the lines sl, on which its excision
\* acts; completed tells that the library model part has run to its end; s, m
\* and c are the places in sl of the sentinel, the malformed expression and
\* the closing directive
Excised(sl, dest, completed, s, m, c) ==
    /\ Len(dest) # Len(sl) => InOrder(s, m, c)
    /\ completed => s > 0 /\ m > 0 /\ c > 0
    /\ (completed /\ InOrder(s, m, c)) =>
          /\ SpecifyBlock(sl, s) # {}
          /\ dest = HarmonizeNets(Keep(sl, SpecifyBlock(sl, s), 1))
    /\ ~InOrder(s, m, c) =>
          /\ Len(dest) = Len(sl)
          /\ completed => dest = HarmonizeNets(sl)

\* C10: lines of the library model are removed only when the sentinel line,
\* the first malformed expression after it and the first closing directive
\* after it occur in that order; when setup_verilog has run the library model
\* part to its end on such a source, the destination is the source (first
\* pass applied, delayed nets harmonized) without the lines from the first
\* specify line to the first endspecify line after the sentinel, both
\* included, and with every other line; when the malformed expression comes
\* after the closing directive, no line is removed.
C10_SpecifyExcision ==
    VerilogStarted =>
        \E sl \in {VerilogFirstPass} : \E s \in {SentinelAt(sl)} :
            Excised(sl, fs[VerilogDest("sky130_fd_sc_hd")], VerilogCompleted, s,
                    MalformedAt(sl, s), ClosingAt(sl, s))

\* the block removed from sl is one of several lines, with lines of sl before
\* and after it
BlockInside(sl, block) ==
    /\ Cardinality(block) >= 3
    /\ \E i \in 1..Len(sl) : \A j \in block : i < j
    /\ \E i \in 1..Len(sl) : \A j \in block : i > j
    /\ Len(fs[VerilogDest("sky130_fd_sc_hd")]) = Len(sl) - Cardinality(block)

\* setup_verilog has removed a specify block of several lines and has kept
\* lines before and after it
C10_Witness ==
    /\ VerilogCompleted
    /\ \E sl \in {VerilogFirstPass} : \E s \in {SentinelAt(sl)} :
          /\ InOrder(s, MalformedAt(sl, s), ClosingAt(sl, s))
          /\ BlockInside(sl, SpecifyBlock(sl, s))

\* the library model part of setup_verilog raised no exception
VerilogNotRaised ==
    /\ VerilogCompleted
    /\ last.exc # ListIndexError

\* C11: when the library model holds the sentinel line and no malformed
\* expression after it, setup_verilog runs the library model part to its end
\* without raising, the destination holds every line of the source (first
\* pass applied, delayed nets harmonized), the specify block included, and
\* primitives.v is repaired when it exists.
C11_AbsenceIsNoError ==
    VerilogStarted =>
        \E sl \in {VerilogFirstPass} : \E s \in {SentinelAt(sl)} :
            (s > 0 /\ MalformedAt(sl, s) = 0) =>
                /\ VerilogNotRaised
                /\ fs[VerilogDest("sky130_fd_sc_hd")] = HarmonizeNets(sl)
                /\ Exists(last.fs0, PrimitivesFile) =>
                      /\ InList(PrimitivesDest, last.writes)
                      /\ fs[PrimitivesDest] =
                            [i \in 1..Len(fs[PrimitivesFile]) |->
                                PrimitivesLine(fs[PrimitivesFile][i])]

\* the characters of an identifier
IdChars == "ABCDEFGHIJKLMNOPQRSTUVWXYZabcdefghijklmnopqrstuvwxyz0123456789_"

\* the identifiers of line in their order; cur is the one being read
RECURSIVE Identifiers(_, _)
Identifiers(line, cur) ==
    IF line = "" THEN (IF cur = "" THEN <<>> ELSE <<cur>>)
    ELSE IF Find(IdChars, SubSeq(line, 1, 1)) # 0
    THEN Identifiers(From(line, 2), cur \o SubSeq(line, 1, 1))
    ELSE (IF cur = "" THEN <<>> ELSE <<cur>>) \o Identifiers(From(line, 2), "")

\* s in upper case
RECURSIVE Upper(_)
Upper(s) ==
    IF s = "" THEN ""
    ELSE (IF Find(IdChars, SubSeq(s, 1, 1)) \in 27..52
          THEN SubSeq(IdChars, Find(IdChars, SubSeq(s, 1, 1)) - 26,
                      Find(IdChars, SubSeq(s, 1, 1)) - 26)
          ELSE SubSeq(s, 1, 1)) \o Upper(From(s, 2))

\* the letters and digits of an identifier, in upper case
NetKey(id) == Replace(Upper(id), "_", "")

\* a and b are spellings of the same delayed net: they differ in case, in
\* underscores and in how much of the word delayed they spell out
SameNet(a, b) ==
    /\ Contains(NetKey(a), "DELAY") /\ Contains(NetKey(b), "DELAY")
    /\ StartsWith(NetKey(a), NetKey(b)) \/ StartsWith(NetKey(b), NetKey(a))

\* line declares a delayed net; ids are its identifiers
DeclaresNet(line, ids) ==
    /\ Len(ids) = 2 /\ ids[1] = "wire"
    /\ Strip(line) = "wire " \o ids[2] \o ";"
    /\ StartsWith(ids[2], "SLEEP") /\ Contains(ids[2], "B")
    /\ Contains(ids[2], "delayed")

IsDeclaration(line) == DeclaresNet(line, Identifiers(line, ""))

\* the place of the last declaration before line i of src, 0 when none
Governing(src, i) ==
    IF \A d \in 1..(i - 1) : ~IsDeclaration(src[d]) THEN 0
    ELSE CHOOSE d \in 1..(i - 1) :
             IsDeclaration(src[d]) /\ \A e \in (d + 1)..(i - 1) : ~IsDeclaration(src[e])

\* a line with identifiers to that was made of one with identifiers from
\* names the net only by name
HarmonizedLine(from, to, name) ==
    /\ \A k \in 1..Len(to) : SameNet(to[k], name) => to[k] = name
    /\ Cardinality({k \in 1..Len(to) : to[k] = name})
          >= Cardinality({k \in 1..Len(from) : SameNet(from[k], name)})

\* line i of dest was made of line i of src, which the declaration at place
\* d governs
Harmonized(src, dest, i, d) ==
    IF d = 0 THEN dest[i] = src[i]
    ELSE IsDeclaration(src[i])
         \/ HarmonizedLine(Identifiers(src[i], ""), Identifiers(dest[i], ""),
                           Identifiers(src[d], "")[2])

\* the lines of sl that the excision leaves, s the place of the sentinel
Harmonizable(sl, s) ==
    IF InOrder(s, MalformedAt(sl, s), ClosingAt(sl, s))
    THEN Keep(sl, SpecifyBlock(sl, s), 1)
    ELSE sl

\* C12: when setup_verilog has run the library model part to its end, the
\* destination has the lines of the source (first pass applied, specify
\* block excised); the lines before the first declaration of a delayed net
\* are unchanged; on every line between a declaration and the next one, every
\* spelling of the declared net (SLEEP1_B_delayed, SLEEP1B_delayed and
\* Sleep1Bdelay for wire SLEEP1B_delayed;) reads as the declaration spells it.
C12_DelayedNetsHarmonized ==
    VerilogNotRaised =>
        \E src \in {Harmonizable(VerilogFirstPass, SentinelAt(VerilogFirstPass))} :
            \E dest \in {fs[VerilogDest("sky130_fd_sc_hd")]} :
                /\ Len(dest) = Len(src)
                /\ \A i \in 1..Len(src) : Harmonized(src, dest, i, Governing(src, i))

\* setup_cdl has written its destination
CdlWritten == AfterInstall /\ InList(CdlDest("sky130_fd_sc_hd"), last.writes)

\* the identifier token under the renaming table of the configured LVS tool
RenamedToken(token, store) ==
    IF token = "pfet_01v8_hvt" THEN Pmos(store)
    ELSE IF token = "nfet_01v8" THEN Nmos(store)
    ELSE token

\* line with every identifier renamed as a whole; cur is the identifier
\* being read
RECURSIVE RenameTokens(_, _, _)
RenameTokens(line, cur, store) ==
    IF line = "" THEN RenamedToken(cur, store)
    ELSE IF Find(IdChars, SubSeq(line, 1, 1)) # 0
    THEN RenameTokens(From(line, 2), cur \o SubSeq(line, 1, 1), store)
    ELSE RenamedToken(cur, store) \o SubSeq(line, 1, 1)
         \o RenameTokens(From(line, 2), "", store)

\* C13: the destination of setup_cdl is the unit-scale line followed by the
\* lines of the source in their order, in which every identifier that is
\* pfet_01v8_hvt or nfet_01v8 is replaced by the name of the configured LVS
\* tool and every other identifier, one that contains nfet_01v8 as a proper
\* substring included, is unchanged.
C13_WholeTokenRenaming ==
    CdlWritten =>
        fs[CdlDest("sky130_fd_sc_hd")] =
            <<"*.SCALE MICRON">>
            \o [i \in 1..Len(fs[CdlFile]) |->
                   RenameTokens(fs[CdlFile][i], "", last.settings0)]

\* the patch jobs in the order in which post_install_script runs them: the
\* source each one needs and the destination it makes
PatchJobs ==
    <<[source |-> CdlFile, dest |-> CdlDest("sky130_fd_sc_hd")],
      [source |-> VerilogFile, dest |-> VerilogDest("sky130_fd_sc_hd")],
      [source |-> PrimitivesFile, dest |-> PrimitivesDest],
      [source |-> TechlefFile, dest |-> TechlefDest("sky130_fd_sc_hd")],
      [source |-> IoLefFile, dest |-> IoLefDest]>>

\* the jobs that the last call had to run for the selected family
JobsRun ==
    IF last.settings0[K_slib] = "sky130_fd_sc_hd" THEN 1..5 ELSE {5}

\* the last call ran every job before job k to its end
Reached(k) ==
    /\ last.exc # ListIndexError
    /\ \A j \in JobsRun : j < k => InList(PatchJobs[j].dest, last.writes)

\* the last call left path as it was: not created, truncated or written
Untouched(path) ==
    /\ ~InList(path, last.writes)
    /\ path \in DOMAIN fs <=> path \in DOMAIN last.fs0
    /\ path \in DOMAIN fs => fs[path] = last.fs0[path]

\* the last call ended with job k reporting that its source is missing
MissingSourceFatal(k) ==
    /\ last.exc.type = "FileNotFoundError"
    /\ Contains(last.exc.msg, PatchJobs[k].source)
    /\ \A j \in JobsRun : j >= k => Untouched(PatchJobs[j].dest)

\* C14: when post_install_script reaches a patch job whose source file does
\* not exist, it ends with the FileNotFoundError of that job, whose message
\* holds the path of the source; the destination of the job is neither
\* created nor truncated nor written, and no later job is run.
C14_MissingSourceIsFatal ==
    AfterInstall =>
        \A k \in JobsRun :
            (PatchJobs[k].source \notin DOMAIN last.fs0 /\ Reached(k))
                => MissingSourceFatal(k)

\* post_install_script has run setup_cdl and setup_verilog and has ended in
\* setup_techlef on the missing technology LEF, with the destination of an
\* earlier installation still in place
C14_Witness ==
    /\ AfterInstall
    /\ TechlefFile \notin DOMAIN last.fs0
    /\ Reached(4)
    /\ last.exc = Raise("FileNotFoundError", "Tech-LEF not found: " \o TechlefFile)
    /\ fs[TechlefDest("sky130_fd_sc_hd")] = StaleCache[TechlefDest("sky130_fd_sc_hd")]
    /\ fs[IoLefDest] = StaleCache[IoLefDest]

\* setup_io_lefs has run to its end
IoLefCompleted ==
    AfterInstall /\ last.exc = NoError /\ InList(IoLefDest, last.writes)

\* line i of src lies in a pin block of net: after a PIN line of the net that
\* no END line of the net closes before i, and before an END line of the net
InPinBlockOf(src, i, net) ==
    /\ \E p \in 1..(i - 1) :
          /\ Contains(src[p], "PIN " \o net)
          /\ \A q \in (p + 1)..i : ~Contains(src[q], "END " \o net)
    /\ \E e \in (i + 1)..Len(src) :
          /\ Contains(src[e], "END " \o net)
          /\ \A q \in i..(e - 1) : ~Contains(src[q], "PIN " \o net)

InPinBlock(src, i) == InPinBlockOf(src, i, "VCCD1") \/ InPinBlockOf(src, i, "VSSD1")

\* the number of times that sub occurs in s
RECURSIVE Occurrences(_, _)
Occurrences(s, sub) ==
    IF Find(s, sub) = 0 THEN 0
    ELSE 1 + Occurrences(From(s, Find(s, sub) + Len(sub)), sub)

\* the number of times that sub occurs in the lines of sl from line i on
RECURSIVE OccurrencesIn(_, _, _)
OccurrencesIn(sl, sub, i) ==
    IF i > Len(sl) THEN 0
    ELSE Occurrences(sl[i], sub) + OccurrencesIn(sl, sub, i + 1)

\* dest from line j on is src from line i on with CLASS CORE ; after the PORT
\* keyword of every pin block of the two nets and with every other PORT line
\* as it was
RECURSIVE CoreInserted(_, _, _, _)
CoreInserted(src, dest, i, j) ==
    IF i > Len(src) THEN j = Len(dest) + 1
    ELSE IF Contains(src[i], "PORT") /\ InPinBlock(src, i)
    THEN /\ j + 1 <= Len(dest)
         /\ dest[j] = SubSeq(src[i], 1, Find(src[i], "PORT") + 3)
         /\ Strip(dest[j + 1]) = Strip("CLASS CORE ;" \o From(src[i], Find(src[i], "PORT") + 4))
         /\ CoreInserted(src, dest, i + 1, j + 2)
    ELSE /\ j <= Len(dest)
         /\ Contains(src[i], "PORT") => dest[j] = src[i]
         /\ ~Contains(dest[j], "CLASS CORE")
         /\ CoreInserted(src, dest, i + 1, j + 1)

\* C15: when setup_io_lefs has run to its end, the destination is the source
\* with a CLASS CORE ; statement right after every PORT keyword that lies in
\* a pin block of VCCD1 or VSSD1, for every such block; every PORT line
\* outside these blocks is as in the source, no other line got the statement,
\* and PORT occurs as often in the destination as in the source.
C15_ClassCoreInserted ==
    IoLefCompleted =>
        /\ CoreInserted(fs[IoLefFile], fs[IoLefDest], 1, 1)
        /\ OccurrencesIn(fs[IoLefDest], "PORT", 1) = OccurrencesIn(fs[IoLefFile], "PORT", 1)

\* setup_io_lefs has run on a source with two pin blocks of VCCD1, a pin
\* block of VSSD1 with two ports and a pin block of another net
C15_Witness ==
    /\ IoLefCompleted
    /\ Cardinality({i \in 1..Len(fs[IoLefFile]) :
                       Contains(fs[IoLefFile][i], "PIN VCCD1")}) = 2
    /\ \E i \in 1..Len(fs[IoLefFile]) : Contains(fs[IoLefFile][i], "PIN VDDIO")
    /\ OccurrencesIn(fs[IoLefFile], "PORT", 1) = 5
    /\ OccurrencesIn(fs[IoLefDest], "CLASS CORE ;", 1) = 4

(***************************************************************************)
(* The hook registry in use: the host generates the descriptor, installs   *)
(* the technology, looks hooks up and runs the end-cap action on a tool    *)
(* session, in any order.                                                  *)
(***************************************************************************)
\* the tools the host may ask hooks for or run
ToolNames == {"innovus", "calibre", "pegasus", "openroad"}

\* the vendor tree as installed, for gen_config and for the patch jobs
HookTree == NominalTree @@ PatchNominal

\* the settings of the host: the family and the two blackbox switches
HookSettings ==
    {(K_drc_blackbox :> drc) @@ (K_lvs_blackbox :> lvs) @@ InitialSettings(slib) :
        slib \in {"sky130_fd_sc_hd", "sky130_scl"}, drc \in BOOLEAN, lvs \in BOOLEAN}

InitHooks ==
    /\ settings \in HookSettings
    /\ fs \in {HookTree, With(HookTree, SRAM22_ROOT, <<>>)}
    /\ config = <<>>
    /\ last = NoCall(settings, fs)
    /\ library_name = None
    /\ use_sram22 = <<>>
    /\ hooks = NoLookup
    /\ session = NoSession

\* the host asks for the hooks of a tool
GetTechParHooks ==
    /\ \E tool \in ToolNames : \E r \in {get_tech_par_hooks(tool)} :
          hooks' = [op |-> "get_tech_par_hooks", tool |-> tool,
                    exc |-> r.exc, list |-> r.list]
    /\ UNCHANGED <<settings, fs, config, last, library_name, use_sram22, session>>

GetTechDrcHooks ==
    /\ \E tool \in ToolNames : \E r \in {get_tech_drc_hooks(settings, tool)} :
          hooks' = [op |-> "get_tech_drc_hooks", tool |-> tool,
                    exc |-> r.exc, list |-> r.list]
    /\ UNCHANGED <<settings, fs, config, last, library_name, use_sram22, session>>

GetTechLvsHooks ==
    /\ \E tool \in ToolNames :
          \E r \in {get_tech_lvs_hooks(settings, use_sram22, tool)} :
              hooks' = [op |-> "get_tech_lvs_hooks", tool |-> tool,
                        exc |-> r.exc, list |-> r.list]
    /\ UNCHANGED <<settings, fs, config, last, library_name, use_sram22, session>>

\* the host starts a tool on the generated descriptor
StartTool ==
    /\ config # <<>>
    /\ \E tool \in {"innovus", "calibre"} :
          session' = Session(tool, <<>>, NoError, <<>>)
    /\ UNCHANGED <<settings, fs, config, last, library_name, use_sram22, hooks>>

\* the host runs the end-cap action on the session of the running tool
AddEndcaps ==
    /\ config # <<>>
    /\ session.tool # ""
    /\ session.exc = NoError
    /\ Len(session.output) < MaxAppends
    /\ session' = sky130_add_endcaps(session, config[1])
    /\ UNCHANGED <<settings, fs, config, last, library_name, use_sram22, hooks>>

NextHooks ==
    \/ GenConfig
    \/ PostInstallScript
    \/ GetTechParHooks
    \/ GetTechDrcHooks
    \/ GetTechLvsHooks
    \/ StartTool
    \/ AddEndcaps

SpecHooks == InitHooks /\ [][NextHooks]_vars

(***************************************************************************)
(* Properties of the hook registry, checked under SpecHooks.               *)
(***************************************************************************)
\* the end-cap action was run last on the session of the place-and-route tool
EndcapsRan ==
    /\ session.tool = "innovus"
    /\ session.returned # <<>> \/ session.exc # NoError

\* the places in the special-cell table of the cells of the end-cap role
EndcapPlaces == {i \in 1..Len(config[1].special_cells) :
                    config[1].special_cells[i].cell_type = "endcap"}

\* msg names the end-cap role
NamesEndcapRole(msg) ==
    \E word \in {"ENDCAP", "END-CAP", "END CAP"} : Contains(Upper(msg), word)

\* C16: when sky130_add_endcaps has run on a descriptor with no end-cap role,
\* it has appended nothing and has raised an error whose message names the
\* end-cap role, not an IndexError; when an end-cap cell is registered it has
\* appended the placement commands with the first cell of the first end-cap
\* entry and has returned True.
C16_EndcapsFailGracefully ==
    EndcapsRan =>
        IF EndcapPlaces = {}
        THEN /\ session.output = <<>>
             /\ session.returned = <<>>
             /\ session.exc.type # "IndexError"
             /\ NamesEndcapRole(session.exc.msg)
        ELSE /\ session.exc = NoError
             /\ session.returned = <<TRUE>>
             /\ session.output # <<>>
             /\ \A k \in 1..Len(session.output) :
                   session.output[k] =
                       EndcapCommands(config[1].special_cells[First(EndcapPlaces)].name[1])

\* a registered action as the host gets it: the stage, the position and the
\* function
Registered(stage, position, func) ==
    [target_name |-> stage, location |-> position, func |-> func]

\* the list that the lookup made last has to return: the actions registered
\* for the tool, in the order of their registration
RegisteredFor(op, tool) ==
    CASE op = "get_tech_par_hooks" /\ tool = "innovus" ->
           <<Registered("init_design", "after", "sky130_innovus_settings"),
             Registered("place_tap_cells", "before", "sky130_add_endcaps"),
             Registered("power_straps", "before", "sky130_connect_nets"),
             Registered("write_design", "before", "sky130_connect_nets2")>>
      [] op = "get_tech_drc_hooks" /\ tool = "calibre" /\ settings[K_drc_blackbox] ->
           <<Registered("generate_drc_run_file", "after", "calibre_drc_blackbox_srams")>>
      [] op = "get_tech_drc_hooks" /\ tool = "pegasus" /\ settings[K_drc_blackbox] ->
           <<Registered("generate_drc_ctl_file", "after", "pegasus_drc_blackbox_srams")>>
      [] op = "get_tech_lvs_hooks" /\ tool = "calibre" ->
           <<Registered("generate_lvs_run_file", "after", "setup_calibre_lvs_deck")>>
           \o (IF use_sram22 = <<TRUE>>
               THEN <<Registered("generate_lvs_run_file", "after",
                                 "sram22_lvs_recognize_gates_all")>>
               ELSE <<>>)
           \o (IF settings[K_lvs_blackbox]
               THEN <<Registered("generate_lvs_run_file", "after",
                                 "calibre_lvs_blackbox_srams")>>
               ELSE <<>>)
      [] op = "get_tech_lvs_hooks" /\ tool = "pegasus" /\ settings[K_lvs_blackbox] ->
           <<Registered("generate_lvs_ctl_file", "after", "pegasus_lvs_blackbox_srams")>>
      [] OTHER -> <<>>

\* the lookup made last returned the registered actions; for the LVS hooks
\* this is asked of an object on which post_install_script has set use_sram22
LookupAsRegistered ==
    (hooks.op = "get_tech_lvs_hooks" => use_sram22 # <<>>) =>
        /\ hooks.exc = NoError
        /\ hooks.list = RegisteredFor(hooks.op, hooks.tool)

RolesQueried(func) ==
    IF func = "sky130_add_endcaps" THEN {"endcap"} ELSE {}

\* the descriptor holds an entry of the role with at least one cell
RoleRegistered(role) ==
    \E i \in 1..Len(config[1].special_cells) :
        /\ config[1].special_cells[i].cell_type = role
        /\ config[1].special_cells[i].name # <<>>

\* C21: once gen_config has completed for either recognised family, every
\* role that an action of get_tech_par_hooks('innovus') looks up is in the
\* special-cell table with at least one cell (the end-cap role in
\* particular), and the end-cap action run on the innovus session has not
\* failed on a missing role.
C21_QueriedRolesRegistered ==
    config # <<>> =>
        /\ \E r \in {get_tech_par_hooks("innovus")} :
              \A k \in 1..Len(r.list) :
                  \A role \in RolesQueried(r.list[k].func) : RoleRegistered(role)
        /\ EndcapsRan => session.exc = NoError

\* the artifact paths of a library record
ArtifactPaths(lib) ==
    {lib.nldm_liberty_file, lib.verilog_sim, lib.lef_file, lib.spice_file,
     lib.gds_file}

\* the paths of the descriptor that lie in the cache directory
CachePathsReferenced ==
    {path \in UNION {ArtifactPaths(config[1].libraries[i]) :
                        i \in 1..Len(config[1].libraries)} :
        StartsWith(path, cache_dir \o "/")}

\* gen_config has built a descriptor and post_install_script has run
GeneratedAndInstalled == config # <<>> /\ use_sram22 # <<>>

\* C22: once gen_config has built the descriptor and post_install_script has
\* run under the same family selection, every path of a library record that
\* lies in the cache directory (logic-simulation model, netlist, IO physical
\* abstraction, primitives model) names a file that post_install_script has
\* written there.
C22_CachePathsWritten ==
    GeneratedAndInstalled => \A path \in CachePathsReferenced : path \in DOMAIN fs

\* C23: every lookup of the LVS hooks returns a list, empty or not, whatever
\* calls of gen_config, post_install_script and hook lookups came before it,
\* also when post_install_script has never run: no lookup ends with an
\* exception.
C23_LvsLookupReturns ==
    hooks.op = "get_tech_lvs_hooks" => hooks.exc = NoError

(***************************************************************************)
(* The rewrite of the control file, run by the host on the session of the  *)
(* LVS tool.                                                               *)
(***************************************************************************)
\* lines a generated control file may hold
CtlPool ==
    <<"schematic_path \"/w/sram22_64x4m4w2.spice\" spice;",
      "layout_path \"/w/ChipTop.gds\" gdsii;",
      "schematic_path \"/build/sram-rundir/sram22_64x24m4w24/sram22_64x24m4w24.spice\" spice;",
      "schematic_path \"/w/ChipTop.cdl\" cdl;",
      "schematic_path \"/w/pll.spice\" spice;",
      "lvs_report_file \"lvs.rpt\";">>

\* the text of a file that holds the lines of q
RECURSIVE TextOf(_)
TextOf(q) == IF q = <<>> THEN "" ELSE Head(q) \o "\n" \o TextOf(Tail(q))

\* catalogs of SRAM macros
SramCatalogs ==
    {<<"sram22_64x4m4w2">>,
     <<"sram22_64x4m4w2", "sram22_64x24m4w24">>,
     <<"sram22_64x4m4w2", "sram22_64x24m4w24", "sram22_512x32m4w8",
       "sram22_1024x32m8w8">>}

\* the catalog with a generated control file, and with none
CtlTrees ==
    {(SramCacheJson :> names) @@ (LvsCtlFile :> TextOf(q)) :
        names \in SramCatalogs, q \in Listings(CtlPool, 1, MaxLines)}
    \cup {(SramCacheJson :> names) : names \in SramCatalogs}

InitLvs ==
    /\ settings = (K_drc_blackbox :> FALSE) @@ (K_lvs_blackbox :> TRUE)
                  @@ InitialSettings("sky130_fd_sc_hd")
    /\ fs \in CtlTrees
    /\ config = <<>>
    /\ last = NoCall(settings, fs)
    /\ library_name = None
    /\ use_sram22 = <<>>
    /\ hooks = NoLookup
    /\ session = Session("pegasus", <<>>, NoError, <<>>)

\* the host runs the action after generate_lvs_ctl_file, once in a session
PegasusLvsBlackboxSrams ==
    /\ session.returned = <<>> /\ session.exc = NoError
    /\ \E r \in {pegasus_lvs_blackbox_srams(session.tool, fs)} :
          /\ fs' = r.fs
          /\ session' = Session(session.tool, session.output, r.exc, r.returned)
          /\ last' = [op |-> "pegasus_lvs_blackbox_srams", exc |-> r.exc,
                      writes |-> IF r.exc = NoError THEN <<LvsCtlFile>> ELSE <<>>,
                      settings0 |-> settings, config0 |-> config, fs0 |-> fs]
    /\ UNCHANGED <<settings, config, library_name, use_sram22, hooks>>

NextLvs == PegasusLvsBlackboxSrams

SpecLvs == InitLvs /\ [][NextLvs]_vars

\* the action has run on the control file and has returned
BlackboxRan == last.op = "pegasus_lvs_blackbox_srams" /\ last.exc = NoError

\* the line is an include of the netlist of a catalogued SRAM
IsSramInclude(line, names) ==
    /\ StartsWith(line, "schematic_path")
    /\ \E k \in 1..Len(names) : Contains(line, names[k])
    /\ Len(line) >= 6 /\ From(line, Len(line) - 5) = "spice;"

\* the text without its SRAM include lines
RECURSIVE WithoutIncludes(_, _)
WithoutIncludes(pieces, names) ==
    IF Len(pieces) = 1 THEN pieces[1]
    ELSE (IF IsSramInclude(pieces[1], names) THEN "" ELSE pieces[1] \o "\n")
         \o WithoutIncludes(Tail(pieces), names)

\* one lvs_black_box line for every name of the catalogue
BlackBoxLines(names) ==
    StrJoin("", [k \in 1..Len(names) |-> "\nlvs_black_box " \o names[k] \o " -gray"])

\* C24: after pegasus_lvs_blackbox_srams has run on a control file with
\* contents C, the file holds exactly C without its SRAM include lines,
\* followed by one lvs_black_box line for every catalogued name, and nothing
\* of C after that text.
C24_ControlFileRewritten ==
    BlackboxRan =>
        fs[LvsCtlFile] =
            WithoutIncludes(Split(last.fs0[LvsCtlFile], "\n"), last.fs0[SramCacheJson])
            \o BlackBoxLines(last.fs0[SramCacheJson])

====
